---- MODULE Spec2Model ----
(***************************************************************************)
(* Model of the SpectralDev pipeline: the audio path                       *)
(* (BufferManager::process_daw_chunk over the CircularSampleBuffer), the   *)
(* two CalculationEngine workers (fft_calculation, oscillator_tuning), the *)
(* TriggerManager worker, the host's update_parameters and the             *)
(* destructors of TriggerManager and CalculationEngine.                    *)
(*                                                                         *)
(* Sample values are abstracted: a chunk sample is "in" (still the host's  *)
(* value) or "out" (replaced by the oscillator output); a snapshot in the  *)
(* ring's out array, the peak map and the oscillator targets are named by  *)
(* the number of the copy_to_output call that produced the data.           *)
(*                                                                         *)
(* The data the threads hand over is modelled beside it: the peak map as   *)
(* calculate_max_map fills it (MapSpec), a WTOscillator with its glide     *)
(* (OscSpec), and the instance as its host sees it, window by window and   *)
(* sample by sample (PlaySpec, ParamSpec).                                 *)
(***************************************************************************)
EXTENDS Integers, Sequences, FiniteSets, TLC

\* ---------------------------------------------------------------- bounds
\* log2 of the FFT size used by the model (the program uses 1024 = 2^10).
FftDegree == 2
\* Number of samples the host streams in total, split into chunks at will.
MaxSamples == 7
\* Largest bin magnitude and largest threshold of a peak extraction.
MaxMag == 2
\* Largest glide length set_glide_steps is given.
MaxGlide == 2
\* Largest amplitude tune_and_set_amp is given directly.
MaxTarget == 2
\* Analysed windows and output samples of one run of the instance.
MaxWindows == 2
MaxAdvances == 2
\* Oscillators of a ResynthOscs stack (the program has MAX_VOICES = 46).
NUM_OSCS == 1
\* log2 of the wavetable size.
WtDegree == 2
\* Largest magnitude of a wavetable sample.
MaxAmp == 1
\* Largest degree passed to pow_two_value_of_degree.
MaxDegree == 65
\* Largest degree the transform is instantiated with (2048 samples).
MaxFftDegree == 11
\* Calls of tune_oscillators_to_fft followed on their own.
MaxTunes == 2

\* ------------------------------------------------------ program constants
FFT_SIZE == 2 ^ FftDegree
VIEW_SIZE == FFT_SIZE \div 2

\* m_glide_resolution = 0.01 of a new WTOscillator, as a number of steps.
DefaultGlideSteps == 100
\* SpctDomainSpecific.h: smallest degree of an accepted number of samples.
min_pow_two_degree == 4
\* ExponentLUT::choose_array: the index of the last twiddle array.
LastArrayIndex == 9

Threads == {"audio", "fft", "tune", "trig", "host"}
Mutexes == {"calc", "tune", "binmag"}

VARIABLES
    pc,                     \* position of every thread
    t_size,                 \* process_daw_chunk: chunk length
    steps_needed,           \* process_daw_chunk: local
    step,                   \* process_daw_chunk: for-loop counter
    daw_chunk_write_index,  \* process_daw_chunk: local
    daw_chunk,              \* the host's chunk: "in" or "out" per sample
    fed,                    \* chunk indices written into the ring by this call
    start_index,            \* ring cursor when the current call started
    delivered,              \* samples handed to process_daw_chunk so far
    audio_steps,            \* steps the current process_daw_chunk call has taken
    publishes,              \* copy_to_output calls of the current call
    m_initiate_fft,         \* BufferManager::m_initiate_fft
    m_ringbuffer_index,     \* CircularSampleBuffer::m_ringbuffer_index
    adv_since_true,         \* advance() calls since the last one returning true
    adv_had_true,           \* advance() has returned true at least once
    adv_count,              \* advance() calls since the arrays were last cleared
    m_out_array,            \* CircularSampleBuffer::m_out_array
    m_bin_mag_arr,          \* CalculationEngine::m_bin_mag_arr
    osc,                    \* ResynthOscs: the peak map the bank is tuned to
    held,                   \* the last retune pass left a newer peak map unapplied
    action_done,            \* calculation SyncPrimitives::action_done
    tune_action_done,       \* tuning SyncPrimitives::action_done
    common_ondition,        \* tuning SyncPrimitives::common_ondition
    m_continuous_tuning,    \* CalculationEngine::m_continuous_tuning
    m_freeze,               \* CalculationEngine freeze flag
    m_stop_workers,         \* CalculationEngine::m_stop_workers
    tm_stop_workers,        \* TriggerManager::m_stop_workers
    waiting,                \* threads blocked in condition_variable::wait
    mtx,                    \* owner of every mutex
    bin_mag_arr,            \* entries <<bin, magnitude>> of m_bin_mag_arr
    valid_entries,          \* value the last calculate_max_map returned
    threshold,              \* threshold the last calculate_max_map was given
    spectrum,               \* magnitudes the last calculate_max_map was given
    m_osc_array,            \* the WTOscillator objects of the stack
    members,                \* the parameter-driven members and the LPF state
    zero_run,               \* progress of prepare_to_play + zero input
    last_op,                \* the call of the instance that came last
    last_params,            \* the argument of the last update_parameters
    windows,                \* windows analysed so far
    advances,               \* output samples produced so far
    m_wavetable,            \* WaveTable::m_wavetable of a table on its own
    wt_prev,                \* m_wavetable before the last equalize_end_and_begin
    pow_width,              \* sizeof(T) * 8 of a pow_two_value_of_degree<T> call
    pow_degree,             \* the call's argument
    pow_value,              \* the call's result (its 1 bits), {-1} before it returns
    DEG_TWO,                \* spct_fourier_transform: template parameter DEG_TWO
    current_pot,            \* spct_fourier_transform: current_pot
    current_exp_array_index,\* spct_fourier_transform: current_exp_array_index
    m_act_array_index,      \* ExponentLUT::m_act_array_index
    inner_ndx,              \* index of the stage's last lookup, -1 before the first
    stage_pc,               \* position in the butterfly loop
    fft_degree,             \* DEG_TWO of a transform of a sinusoid
    fft_bin,                \* the bin the sinusoid lies at
    fft_samples_arr,        \* spct_fourier_transform: samples_arr
    transformed,            \* the transform has returned
    tune_calls,             \* the tune_and_set_amp calls of the last
                            \* tune_oscillators_to_fft: <<nth_osc, to_freq, amplitude>>
    tune_voices,            \* num_voices of the last tune_oscillators_to_fft
    tunes,                  \* tune_oscillators_to_fft calls so far
    rev_deg,                \* DEG_TWO of a bit-reversal stage on its own
    rev_in,                 \* samples_arr when the stage began
    rev_arr,                \* samples_arr
    rev_index,              \* the stage's loop counter array_index
    rev_swaps               \* the std::swap calls so far: <<array_index, comparison>>

audio_vars == <<t_size, steps_needed, step, daw_chunk_write_index, daw_chunk,
                fed, start_index, delivered, audio_steps, publishes,
                m_initiate_fft>>
ring_vars == <<m_ringbuffer_index, adv_since_true, adv_had_true, adv_count>>
data_vars == <<m_out_array, m_bin_mag_arr, osc, held>>
flag_vars == <<action_done, tune_action_done, common_ondition,
               m_continuous_tuning, m_freeze, m_stop_workers, tm_stop_workers>>
sync_vars == <<waiting, mtx>>
engine_vars == <<pc, audio_vars, ring_vars, data_vars, flag_vars, sync_vars>>
map_vars == <<bin_mag_arr, valid_entries, threshold, spectrum>>
play_vars == <<members, zero_run, last_op, last_params, windows, advances>>
stage_vars == <<DEG_TWO, current_pot, current_exp_array_index,
                m_act_array_index, inner_ndx, stage_pc>>
fft_vars == <<fft_degree, fft_bin, fft_samples_arr, transformed>>
table_vars == <<m_wavetable, wt_prev>>
pow_vars == <<pow_width, pow_degree, pow_value>>
tune_vars == <<tune_calls, tune_voices, tunes>>
rev_vars == <<rev_deg, rev_in, rev_arr, rev_index, rev_swaps>>
unit_vars == <<table_vars, pow_vars, stage_vars, fft_vars, tune_vars, rev_vars>>
system_vars == <<engine_vars, map_vars, m_osc_array, play_vars>>
detail_vars == <<map_vars, m_osc_array, play_vars, unit_vars>>
vars == <<engine_vars, detail_vars>>

\* ------------------------------------------------------------- helpers
\* x & ~bit for a power of two bit: clears that bit of x.
AndNot(x, bit) == IF (x \div bit) % 2 = 1 THEN x - bit ELSE x

\* std::ceil(static_cast<float>(a) / b) for positive integers.
CeilDiv(a, b) == (a + b - 1) \div b

\* advance() with the cursor masked by the view size instead of the buffer
\* size.
advance_MaskedByView(i) ==
    [index |-> AndNot(i + 1, VIEW_SIZE),
     do_transformation |-> (i + 1 = VIEW_SIZE)]

\* CircularSampleBuffer::advance on cursor i: the new cursor and the result.
advance(i) ==
    [index |-> AndNot(i + 1, FFT_SIZE),
     do_transformation |-> (i + 1 = VIEW_SIZE)]

\* condition_variable::notify_one / notify_all on the cv thread t waits on
\* (every cv of the program has a single waiter).
Notify(w, t) == w \ {t}

Goto(t, p) == pc' = [pc EXCEPT ![t] = p]

\* ---------------------------------------------------- SpctDomainSpecific
\* The widths sizeof(T) * 8 of the unsigned types T: uint8_t, uint16_t,
\* uint32_t and uint64_t.
Widths == {8, 16, 32, 64}

\* An unsigned value is the set of the positions of its 1 bits: 0 is {},
\* 2^d is {d}.
correct_one == {0}

\* value << count in an unsigned type of the given width: every bit moves up
\* by count, the bits moved past the width are lost.
ShiftLeft(width, value, count) ==
    {bit + count : bit \in value} \cap 0..(width - 1)

\* The shift without the safety check.
pow_two_value_of_degree_Unchecked(width, degree) ==
    ShiftLeft(width, correct_one, degree)

\* pow_two_value_of_degree<T>(degree), T of the given width.
pow_two_value_of_degree(width, degree) ==
    IF degree >= width
    THEN ShiftLeft(width, correct_one, width - 1)
    ELSE ShiftLeft(width, correct_one, degree)

\* ---------------------------------------------------------- ExponentLUT
\* ExponentLUT::choose_array(array_index): the value m_act_array_index takes
\* in a table whose last array has the index last_index.
choose_array(array_index, last_index) ==
    IF array_index > last_index THEN last_index ELSE array_index

\* The selection without the clamp.
\* Number of elements of the array operator[] reads for an array index:
\* m_array_2p0 holds 1 element, m_array_2p9 holds 512.
ELEMENTS(array_index) == 2 ^ array_index

\* ------------------------------------------------ spct_fourier_transform
\* The transform is computed exactly, at a scale it can be run at: 4 and 8
\* samples against a twiddle table of two arrays, in place of 16 .. 2048
\* samples against the table of ten. As 2048 does in the source, the largest
\* size asks for one array more than the table holds.
FftDegrees == {2, 3}
TopDegree == CHOOSE d \in FftDegrees : \A e \in FftDegrees : e <= d
ScaledLastArrayIndex == TopDegree - 2

\* Complex numbers are the integer combinations a + b z + c z^2 + d z^3 of
\* the powers of z = exp(-i pi / 4), kept as <<a, b, c, d>>; z^4 = -1. Every
\* twiddle factor and twice every sample of a sinusoid at a bin is one.
HalfRoot == 2 ^ (TopDegree - 1)
Complex == [0..(HalfRoot - 1) -> Int]
Zero == [j \in 0..(HalfRoot - 1) |-> 0]
One == [j \in 0..(HalfRoot - 1) |-> IF j = 0 THEN 1 ELSE 0]
Plus(x, y) == [j \in 0..(HalfRoot - 1) |-> x[j] + y[j]]
Minus(x, y) == [j \in 0..(HalfRoot - 1) |-> x[j] - y[j]]

\* x * z^e.
TimesRoot(x, e) ==
    [j \in 0..(HalfRoot - 1) |->
        LET from_j == (j - e) % (2 * HalfRoot)
        IN  IF from_j < HalfRoot THEN x[from_j] ELSE -x[from_j - HalfRoot]]

\* x * (c * z^e), the factor given as <<c, e>>.
Times(factor, x) ==
    [j \in 0..(HalfRoot - 1) |-> factor[1] * TimesRoot(x, factor[2])[j]]

\* |x|^2 = p + q * sqrt(2), as <<p, q>> (HalfRoot = 4).
Norm(x) ==
    <<x[0] * x[0] + x[1] * x[1] + x[2] * x[2] + x[3] * x[3],
      x[0] * x[1] + x[1] * x[2] + x[2] * x[3] - x[3] * x[0]>>

\* p + q * sqrt(2) > 0.
Positive(p, q) ==
    \/ p >= 0 /\ q >= 0 /\ (p > 0 \/ q > 0)
    \/ p > 0 /\ q < 0 /\ p * p > 2 * q * q
    \/ p < 0 /\ q > 0 /\ 2 * q * q > p * p

\* |x| > |y|.
Larger(x, y) == Positive(Norm(x)[1] - Norm(y)[1], Norm(x)[2] - Norm(y)[2])

\* ExponentArray<ELEMENTS>: entry index is exp(-i pi index / ELEMENTS).
ExponentArray(array_index, index) ==
    <<1, index * (HalfRoot \div ELEMENTS(array_index))>>

\* What a read past the end of the last twiddle array can return.
Garbage == {<<0, 0>>, <<1, 0>>, <<2, 0>>}

\* ExponentLUT::operator[](index) with the array array_index selected: the
\* read is unchecked, and past the array's end it returns whatever lies
\* there.
ExponentLUT_at(array_index, index, past_end) ==
    IF index < ELEMENTS(array_index)
    THEN ExponentArray(array_index, index)
    ELSE past_end[index]

\* The first loop of spct_fourier_transform: the index with its DEG_TWO bits
\* reversed; swapping every index below its reversal with it puts sample
\* comparison(j) at place j.
RECURSIVE comparison(_, _, _)
comparison(array_index, degree_index, deg) ==
    IF degree_index = deg THEN 0
    ELSE (array_index % 2) * 2 ^ (deg - 1 - degree_index)
         + comparison(array_index \div 2, degree_index + 1, deg)

\* One pass of the while loop: every butterfly of the stage with block size
\* pot, its twiddle factors read through the table.
Butterflies(arr, pot, act, past_end) ==
    [j \in DOMAIN arr |->
        LET inner == j % pot
            half == pot \div 2
        IN  IF inner < half
            THEN Plus(arr[j],
                      Times(ExponentLUT_at(act, inner, past_end), arr[j + half]))
            ELSE Minus(arr[j - half],
                       Times(ExponentLUT_at(act, inner - half, past_end), arr[j])) ]

\* The while loop from the stage with block size pot on.
RECURSIVE Stages(_, _, _, _, _)
Stages(arr, pot, exp_array_index, deg, past_end) ==
    IF pot > 2 ^ deg THEN arr
    ELSE Stages(Butterflies(arr, pot,
                            choose_array(exp_array_index, ScaledLastArrayIndex),
                            past_end),
                pot * 2, exp_array_index + 1, deg, past_end)

\* spct_fourier_transform<T, deg>(arr, exponent_lut).
spct_fourier_transform(arr, deg, past_end) ==
    Stages([j \in DOMAIN arr |-> arr[comparison(j, 0, deg)]], 2, 0, deg,
           past_end)

\* Twice the real sinusoid cos(2 pi bin n / N + phase pi / 4), N = 2^deg.
Sinusoid(deg, bin, phase) ==
    [n \in 0..(2 ^ deg - 1) |->
        LET turn == bin * n * 2 ^ (TopDegree - deg) + phase
        IN  Plus(TimesRoot(One, turn % (2 * HalfRoot)),
                 TimesRoot(One, (-turn) % (2 * HalfRoot)))]

\* --------------------------------------------------------- WaveTable
\* Template parameter WT_SIZE, a bounded power of two.
WT_SIZE == 2 ^ WtDegree

\* The generating functions, each given by its values at the WT_SIZE sample
\* points index * 2 pi / WT_SIZE.
Generators == [0..(WT_SIZE - 1) -> (-MaxAmp)..MaxAmp]

\* WaveTable(): the table filled with zeros.
WaveTable_default == [index \in 1..WT_SIZE |-> 0]

\* WaveTable(function, PERIODIC): entry index holds the function's value at
\* index * periodic_scalar (sequence place index + 1).
WaveTable(function) == [index \in 1..WT_SIZE |-> function[index - 1]]

\* The copy taken the other way round.
equalize_end_and_begin_IntoFirst(table) ==
    [table EXCEPT ![1] = table[WT_SIZE]]

\* WaveTable::equalize_end_and_begin(): m_wavetable[WT_SIZE - 1] =
\* m_wavetable[0].
equalize_end_and_begin(table) ==
    [table EXCEPT ![WT_SIZE] = table[1]]

\* Sample values of the standard tables are in thousandths.
Milli == 1000

\* std::sin at the multiples of pi / 4, rounded to thousandths; the sample
\* points of a table of 4 or 8 entries are among them.
sin(index) ==
    LET eighth == (8 * index) \div WT_SIZE IN
    CASE eighth \in {0, 4} -> 0
      [] eighth \in {1, 3} -> 707
      [] eighth = 2 -> Milli
      [] eighth \in {5, 7} -> -707
      [] eighth = 6 -> -Milli

\* SineWT, SquareWT, TriWT and SawWT as constructed: the generating function
\* at index * 2 pi / WT_SIZE.
SineWT == WaveTable([index \in 0..(WT_SIZE - 1) |-> sin(index)])
SquareWT ==
    WaveTable([index \in 0..(WT_SIZE - 1) |->
                  IF 2 * index < WT_SIZE THEN -Milli ELSE Milli])
TriWT ==
    WaveTable([index \in 0..(WT_SIZE - 1) |->
                  IF 4 * index <= WT_SIZE
                  THEN (4 * index * Milli) \div WT_SIZE
                  ELSE IF 4 * index <= 3 * WT_SIZE
                       THEN 2 * Milli - (4 * index * Milli) \div WT_SIZE
                       ELSE (4 * index * Milli) \div WT_SIZE - 4 * Milli])
SawWT ==
    WaveTable([index \in 0..(WT_SIZE - 1) |->
                  Milli - (4 * index * Milli) \div WT_SIZE])

\* The table after count calls of equalize_end_and_begin().
RECURSIVE Equalized(_, _)
Equalized(table, count) ==
    IF count = 0 THEN table
    ELSE Equalized(equalize_end_and_begin(table), count - 1)

\* Calls of equalize_end_and_begin() each table of the bank has received
\* once ResynthOscs is constructed: the constructor builds every oscillator
\* as WTOscillator{sampling_freq, &m_sin_wt}, and that constructor equalizes
\* the table it is given; nothing else calls it.
equalize_calls(osc_waveform) == IF osc_waveform = "SINE" THEN NUM_OSCS ELSE 0

\* The tables of the constructed bank, by the waveform that selects them:
\* m_sin_wt, m_tri_wt, m_saw_wt, m_square_wt.
wavetable(osc_waveform) ==
    Equalized(CASE osc_waveform = "SINE" -> SineWT
                [] osc_waveform = "TRIANGLE" -> TriWT
                [] osc_waveform = "SAW" -> SawWT
                [] osc_waveform = "SQUARE" -> SquareWT,
              equalize_calls(osc_waveform))

\* ------------------------------------------------------ WTOscillator
\* Increments, amplitudes and the table index are kept as integers: the
\* amplitude in units of 1/Scale, the increment and the table index in units
\* of INTERNAL_SIZE / (m_sampling_freq * Scale), which makes every glide
\* fraction (target - previous target) / glide_steps exact.
RECURSIVE Factorial(_)
Factorial(n) == IF n <= 1 THEN 1 ELSE n * Factorial(n - 1)

Scale == Factorial(MaxGlide)
\* Frequencies are in units of one FFT bin width, m_sampling_freq / FFT_SIZE.
m_sampling_freq == FFT_SIZE
m_nyquist_freq == m_sampling_freq \div 2
INTERNAL_SIZE == m_sampling_freq * Scale

\* A default-constructed WTOscillator. m_glide_resolution is held as its
\* inverse, glide_steps. since_tune counts the advance calls since the last
\* tune_and_set_amp (-1: none, or another call came between) and from holds
\* the targets that tune replaced.
WTOscillator ==
    [m_table_index |-> 0,
     m_index_increment |-> 0, m_prev_index_increment |-> 0,
     m_amplitude |-> 0, m_prev_amplitude |-> 0,
     glide_steps |-> DefaultGlideSteps,
     m_glide_fraction |-> <<0, 0>>,
     m_upper_limit |-> <<0, 0>>, m_lower_limit |-> <<0, 0>>,
     m_wt_ptr |-> "SINE",
     since_tune |-> -1, from |-> <<0, 0>>]

\* std::clamp(v, lo, hi). With hi < lo the behaviour is undefined: the
\* results are those of the two usual implementations,
\* min(max(v, lo), hi) and v < lo ? lo : hi < v ? hi : v.
clamp(v, lo, hi) ==
    IF lo <= hi
    THEN {IF v < lo THEN lo ELSE IF hi < v THEN hi ELSE v}
    ELSE {hi, IF v < lo THEN lo ELSE hi}

\* A setter storing its argument as given.
clamped_Unchecked(v, lo, hi) == v

\* std::clamp called with lo <= hi.
clamped(v, lo, hi) == CHOOSE x \in clamp(v, lo, hi) : TRUE

\* tune_and_set_amp setting the current increment and amplitude to the new
\* targets at once.
tune_and_set_amp_Jumping(o, to_freq, amplitude) ==
    LET index_incr == clamped(to_freq, 0, m_nyquist_freq)
        incr == index_incr * Scale
        amp == amplitude * Scale
    IN [o EXCEPT
          !.m_index_increment = incr,
          !.m_amplitude = amp,
          !.m_glide_fraction = <<0, 0>>,
          !.m_upper_limit = <<incr, amp>>,
          !.m_lower_limit = <<incr, amp>>,
          !.m_prev_index_increment = incr,
          !.m_prev_amplitude = amp,
          !.since_tune = 0,
          !.from = <<o.m_prev_index_increment, o.m_prev_amplitude>>]

\* WTOscillator::tune_and_set_amp(to_freq, amplitude): the frequency is
\* clamped to [0, nyquist], the glide fractions are the distance between the
\* new and the PREVIOUS targets times m_glide_resolution, and of each pair
\* of limits the one on the side of the move becomes the new target.
tune_and_set_amp(o, to_freq, amplitude) ==
    LET index_incr == clamped(to_freq, 0, m_nyquist_freq)
        incr == index_incr * Scale
        amp == amplitude * Scale
        freq_greater == incr > o.m_prev_index_increment
        amp_greater == amp > o.m_prev_amplitude
    IN [o EXCEPT
          !.m_glide_fraction =
              <<(incr - o.m_prev_index_increment) \div o.glide_steps,
                (amp - o.m_prev_amplitude) \div o.glide_steps>>,
          !.m_upper_limit =
              <<IF freq_greater THEN incr ELSE @[1],
                IF amp_greater THEN amp ELSE @[2]>>,
          !.m_lower_limit =
              <<IF freq_greater THEN @[1] ELSE incr,
                IF amp_greater THEN @[2] ELSE amp>>,
          !.m_prev_index_increment = incr,
          !.m_prev_amplitude = amp,
          !.since_tune = 0,
          !.from = <<o.m_prev_index_increment, o.m_prev_amplitude>>]

\* advance_and_receive_output moving the table index on without the wrap.
advance_and_receive_output_NoWrap(o) ==
    { [o EXCEPT
          !.m_table_index = @ + o.m_index_increment,
          !.m_index_increment = i,
          !.m_amplitude = a,
          !.since_tune =
              IF @ < 0 THEN @ ELSE IF @ < MaxGlide THEN @ + 1 ELSE @] :
        i \in clamp(o.m_index_increment + o.m_glide_fraction[1],
                    o.m_lower_limit[1], o.m_upper_limit[1]),
        a \in clamp(o.m_amplitude + o.m_glide_fraction[2],
                    o.m_lower_limit[2], o.m_upper_limit[2]) }

\* WTOscillator::advance_and_receive_output(): the table index moves on by
\* the increment and wraps once at INTERNAL_SIZE; increment and amplitude
\* move on by their glide fraction and are clamped to their limits. The
\* results are the oscillators the call can leave.
advance_and_receive_output(o) ==
    { [o EXCEPT
          !.m_table_index =
              IF @ + o.m_index_increment >= INTERNAL_SIZE
              THEN @ + o.m_index_increment - INTERNAL_SIZE
              ELSE @ + o.m_index_increment,
          !.m_index_increment = i,
          !.m_amplitude = a,
          !.since_tune =
              IF @ < 0 THEN @ ELSE IF @ < MaxGlide THEN @ + 1 ELSE @] :
        i \in clamp(o.m_index_increment + o.m_glide_fraction[1],
                    o.m_lower_limit[1], o.m_upper_limit[1]),
        a \in clamp(o.m_amplitude + o.m_glide_fraction[2],
                    o.m_lower_limit[2], o.m_upper_limit[2]) }

\* WTOscillator::reset(sampling_freq): m_prev_amplitude is not among the
\* members it assigns.
WTOscillator_reset(o) ==
    [o EXCEPT
        !.m_amplitude = 0, !.m_table_index = 0,
        !.m_index_increment = 0, !.m_prev_index_increment = 0,
        !.m_lower_limit = <<0, 0>>, !.m_upper_limit = <<0, 0>>,
        !.m_glide_fraction = <<0, 0>>,
        !.since_tune = -1, !.from = <<0, 0>>]

\* WTOscillator::set_glide_steps(glide_steps)
set_glide_steps(o, glide_steps) ==
    [o EXCEPT
        !.glide_steps = clamped(glide_steps, 1, 65535),
        !.since_tune = -1]

\* ------------------------------------------- parameter-driven members
\* m_voices and m_threshold of CalculationEngine, m_freq_offset of
\* ResynthOscs, m_gain, m_alpha and m_previous_sample of BufferManager and
\* m_tuning_interval of TriggerManager, as their initialisers leave them.
\* m_alpha is held as the cut-off it was computed from (0: the initial
\* m_alpha = 1), m_previous_sample as "zero" or "sound" (any other value),
\* the initial threshold 0.01 as 0 (both are under the floor of 1).
Members ==
    [m_voices |-> clamped(4, 0, NUM_OSCS), m_threshold |-> 0,
     m_freq_offset |-> 0, m_gain |-> 1, m_alpha |-> 0,
     m_previous_sample |-> "zero", m_tuning_interval |-> 500]

\* The parameter sets the host passes to update_parameters: every combination
\* of two values per field, and the sets whose gain lies below and whose
\* trigger interval lies above the accepted range.
FxParameters ==
    [waveform_selection : {"SINE", "SQUARE"},
     filter_cutoff : {1, 2},
     fft_threshold : {0, MaxMag},
     frequency_offset : {0, 1},
     gain : {1, 3},
     glide_steps : {0, MaxGlide},
     voices : {0, NUM_OSCS + 1},
     freeze : BOOLEAN,
     continuous_tuning : BOOLEAN,
     tune_interval_ms : {0, 10}]
    \cup
    [waveform_selection : {"SINE"},
     filter_cutoff : {1},
     fft_threshold : {0},
     frequency_offset : {0},
     gain : {-1},
     glide_steps : {0, MaxGlide},
     voices : {0, NUM_OSCS + 1},
     freeze : {FALSE},
     continuous_tuning : {TRUE},
     tune_interval_ms : {5001}]

\* ---------------------------------------------------------------- Init
\* The buffers, the peak map and the bookkeeping as the member initialisers
\* leave them; the atomics without initialiser are value-initialised.
BuffersInit ==
    /\ t_size = 0
    /\ steps_needed = 0
    /\ step = 0
    /\ daw_chunk_write_index = 0
    /\ daw_chunk = << >>
    /\ fed = << >>
    /\ start_index = 0
    /\ delivered = 0
    /\ audio_steps = 0
    /\ publishes = 0
    /\ m_initiate_fft = FALSE
    /\ m_ringbuffer_index = 0
    /\ adv_since_true = 0
    /\ adv_had_true = FALSE
    /\ adv_count = 0
    /\ m_out_array = [snap |-> 0, form |-> "windowed"]
    /\ m_bin_mag_arr = [snap |-> 0, valid |-> TRUE, partial |-> FALSE]
    /\ osc = [target |-> 0]
    /\ held = FALSE
    /\ common_ondition = FALSE
    /\ m_freeze = FALSE
    /\ waiting = {}
    /\ mtx = [m \in Mutexes |-> "none"]
    /\ bin_mag_arr = [i \in 1..VIEW_SIZE |-> <<0, 0>>]
    /\ valid_entries = 0
    /\ threshold = 0
    /\ spectrum = [i \in 1..VIEW_SIZE |-> 0]
    /\ zero_run = 0
    /\ last_op = "none"
    /\ last_params = << >>
    /\ windows = 0
    /\ advances = 0
    /\ wt_prev = << >>
    /\ tune_calls = << >>
    /\ tune_voices = 0
    /\ tunes = 0

\* The state after InstanceController's construction: the workers are at the
\* top of their loops, each having started after the flags were initialised,
\* and CalculationEngine::prepare_to_play has set both action_done flags.
EngineInit ==
    /\ pc = [t \in Threads |->
                IF t = "audio" THEN "idle"
                ELSE IF t = "host" THEN "alive" ELSE "loop"]
    /\ action_done = TRUE
    /\ tune_action_done = TRUE
    /\ m_continuous_tuning = TRUE
    /\ m_stop_workers = FALSE
    /\ tm_stop_workers = FALSE
    /\ BuffersInit

\* No wavetable on its own has been built.
TableIdle == m_wavetable = WaveTable_default

\* No call of pow_two_value_of_degree is under way.
PowIdle == pow_width = 8 /\ pow_degree = 0 /\ pow_value = {-1}

\* No transform is under way.
StageIdle ==
    /\ DEG_TWO = min_pow_two_degree
    /\ current_pot = 2
    /\ current_exp_array_index = 0
    /\ m_act_array_index = 0
    /\ inner_ndx = -1
    /\ stage_pc = "done"

\* No sinusoid is being transformed.
FftIdle ==
    /\ fft_degree = TopDegree
    /\ fft_bin = 0
    /\ fft_samples_arr = [n \in 0..(2 ^ TopDegree - 1) |-> Zero]
    /\ transformed = TRUE

\* No bit-reversal stage on its own: a stage of degree 0 that is over.
RevIdle ==
    /\ rev_deg = 0
    /\ rev_in = [j \in {0} |-> 0]
    /\ rev_arr = rev_in
    /\ rev_index = 1
    /\ rev_swaps = << >>

UnitsIdle == TableIdle /\ PowIdle /\ StageIdle /\ FftIdle /\ RevIdle

Init ==
    /\ EngineInit
    /\ UnitsIdle
    /\ m_osc_array = [k \in 1..NUM_OSCS |-> WTOscillator]
    /\ members = Members

\* The state once the host's first update_parameters has set the glide
\* length.
OscInit ==
    /\ EngineInit
    /\ UnitsIdle
    /\ \E glide_steps \in 1..MaxGlide :
          m_osc_array =
              [k \in 1..NUM_OSCS |-> set_glide_steps(WTOscillator, glide_steps)]
    /\ members = Members

\* ------------------------------------------------- audio thread
\* Entry of process_daw_chunk(daw_chunk, n): steps_needed and the write index.
AudioCall ==
    /\ pc["audio"] = "idle"
    /\ pc["host"] = "alive"
    /\ \E n \in 1..(MaxSamples - delivered) :
        /\ t_size' = n
        /\ delivered' = delivered + n
        /\ steps_needed' = IF n > FFT_SIZE THEN CeilDiv(n, FFT_SIZE) ELSE 1
        /\ daw_chunk' = [j \in 1..n |-> "in"]
    /\ step' = 0
    /\ daw_chunk_write_index' = 0
    /\ fed' = << >>
    /\ start_index' = m_ringbuffer_index
    /\ audio_steps' = 0
    /\ publishes' = 0
    /\ Goto("audio", "while")
    /\ UNCHANGED <<detail_vars, m_initiate_fft, ring_vars, data_vars, flag_vars, sync_vars>>

\* fill_in_and_out_buffers followed by advance(): the effect on the chunk,
\* the write index and the ring common to the main loop and the tail loop.
ProcessSample ==
    /\ fed' = Append(fed, daw_chunk_write_index)
    /\ daw_chunk' = [daw_chunk EXCEPT ![daw_chunk_write_index + 1] = "out"]
    /\ daw_chunk_write_index' = daw_chunk_write_index + 1
    /\ m_ringbuffer_index' = advance(m_ringbuffer_index).index
    /\ adv_since_true' =
          IF advance(m_ringbuffer_index).do_transformation
          THEN 0 ELSE adv_since_true + 1
    /\ adv_had_true' =
          (adv_had_true \/ advance(m_ringbuffer_index).do_transformation)
    /\ adv_count' = adv_count + 1

\* One iteration of the inner while loop of the for loop.
AudioFill ==
    /\ pc["audio"] = "while"
    /\ audio_steps' = audio_steps + 1
    /\ ~m_initiate_fft
    /\ daw_chunk_write_index < t_size
    /\ ProcessSample
    /\ m_initiate_fft' = advance(m_ringbuffer_index).do_transformation
    /\ UNCHANGED <<detail_vars, pc, t_size, steps_needed, step, start_index, delivered, publishes,
                   data_vars, flag_vars, sync_vars>>

\* End of one for-loop iteration: the next iteration, the tail loop or return.
AfterStep ==
    /\ step' = step + 1
    /\ Goto("audio", IF step + 1 < steps_needed THEN "while"
                     ELSE IF steps_needed = 1 THEN "tail" ELSE "idle")

\* The readiness check testing action_done alone.
AudioCheck_IgnoringWrap ==
    /\ pc["audio"] = "while"
    /\ audio_steps' = audio_steps + 1
    /\ (m_initiate_fft \/ daw_chunk_write_index >= t_size)
    /\ IF action_done
       THEN Goto("audio", "copy") /\ UNCHANGED step
       ELSE AfterStep
    /\ UNCHANGED <<detail_vars, t_size, steps_needed, daw_chunk_write_index, daw_chunk, fed,
                   start_index, delivered, publishes, m_initiate_fft, ring_vars,
                   data_vars, flag_vars, sync_vars>>

\* The readiness check if (m_initiate_fft && action_done) once the while loop
\* has ended.
AudioCheck ==
    /\ pc["audio"] = "while"
    /\ audio_steps' = audio_steps + 1
    /\ (m_initiate_fft \/ daw_chunk_write_index >= t_size)
    /\ IF m_initiate_fft /\ action_done
       THEN Goto("audio", "copy") /\ UNCHANGED step
       ELSE AfterStep
    /\ UNCHANGED <<detail_vars, t_size, steps_needed, daw_chunk_write_index, daw_chunk, fed,
                   start_index, delivered, publishes, m_initiate_fft, ring_vars, data_vars,
                   flag_vars, sync_vars>>

\* copy_to_output(): the windowed input becomes the next snapshot in out.
AudioCopy ==
    /\ pc["audio"] = "copy"
    /\ audio_steps' = audio_steps + 1
    /\ m_out_array' = [snap |-> m_out_array.snap + 1, form |-> "windowed"]
    /\ publishes' = publishes + 1
    /\ Goto("audio", "notify")
    /\ UNCHANGED <<detail_vars, t_size, steps_needed, step, daw_chunk_write_index,
                   daw_chunk, fed, start_index, delivered, m_initiate_fft,
                   ring_vars, m_bin_mag_arr, osc, held, flag_vars, sync_vars>>

\* The notify taken under the signalling mutex, as a waiter-side hand-off
\* would have it: the audio thread blocks while the FFT worker holds the lock.
AudioNotify_UnderMutex ==
    /\ pc["audio"] = "notify"
    /\ mtx["calc"] = "none"
    /\ audio_steps' = audio_steps + 1
    /\ waiting' = Notify(waiting, "fft")
    /\ m_initiate_fft' = FALSE
    /\ AfterStep
    /\ UNCHANGED <<detail_vars, t_size, steps_needed, daw_chunk_write_index, daw_chunk, fed,
                   start_index, delivered, publishes, ring_vars, data_vars, flag_vars, mtx>>

\* signalling_cv.notify_one(); m_initiate_fft = false; end of the iteration.
AudioNotify ==
    /\ pc["audio"] = "notify"
    /\ audio_steps' = audio_steps + 1
    /\ waiting' = Notify(waiting, "fft")
    /\ m_initiate_fft' = FALSE
    /\ AfterStep
    /\ UNCHANGED <<detail_vars, t_size, steps_needed, daw_chunk_write_index, daw_chunk, fed,
                   start_index, delivered, publishes, ring_vars, data_vars, flag_vars, mtx>>

\* The tail loop (steps_needed == 1): advance()'s result is dropped.
AudioTail ==
    /\ pc["audio"] = "tail"
    /\ daw_chunk_write_index < t_size
    /\ audio_steps' = audio_steps + 1
    /\ ProcessSample
    /\ UNCHANGED <<detail_vars, pc, t_size, steps_needed, step, start_index, delivered, publishes,
                   m_initiate_fft, data_vars, flag_vars, sync_vars>>

\* The tail loop's condition is false: process_daw_chunk returns.
AudioReturn ==
    /\ pc["audio"] = "tail"
    /\ daw_chunk_write_index >= t_size
    /\ Goto("audio", "idle")
    /\ audio_steps' = audio_steps + 1
    /\ UNCHANGED <<detail_vars, t_size, steps_needed, step, daw_chunk_write_index,
                   daw_chunk, fed, start_index, delivered, publishes, m_initiate_fft,
                   ring_vars, data_vars, flag_vars, sync_vars>>

AudioStep ==
    \/ AudioFill
    \/ AudioCheck
    \/ AudioCopy
    \/ AudioNotify
    \/ AudioTail
    \/ AudioReturn

AudioThread == AudioCall \/ AudioStep

\* CircularSampleBuffer::clear_arrays, which InstanceController's
\* prepare_to_play and reset call between two audio callbacks: both arrays
\* are zeroed and the cursor is set to 0.
clear_arrays ==
    /\ pc["audio"] = "idle"
    /\ pc["host"] = "alive"
    /\ m_ringbuffer_index' = 0
    /\ adv_count' = 0
    /\ adv_since_true' = 0
    /\ adv_had_true' = FALSE
    /\ m_out_array' = [snap |-> 0, form |-> "windowed"]
    /\ UNCHANGED <<detail_vars, pc, audio_vars, m_bin_mag_arr, osc, held, flag_vars,
                   sync_vars>>

\* ------------------------------------------------- mutexes
Acquire(m, t) == mtx' = [mtx EXCEPT ![m] = t]
Release(m) == mtx' = [mtx EXCEPT ![m] = "none"]

\* ------------------------------------------------- FFT worker
\* CalculationEngine::fft_calculation: while (!m_stop_workers)
FftLoop ==
    /\ pc["fft"] = "loop"
    /\ Goto("fft", IF m_stop_workers THEN "done" ELSE "lock")
    /\ UNCHANGED <<detail_vars, audio_vars, ring_vars, data_vars, flag_vars, sync_vars>>

\* unique_lock lock{signalling_mtx}; signalling_cv.wait(lock): the worker
\* blocks and the mutex is released inside wait. No predicate is passed.
FftWait ==
    /\ pc["fft"] = "lock"
    /\ mtx["calc"] = "none"
    /\ waiting' = waiting \cup {"fft"}
    /\ Goto("fft", "waiting")
    /\ UNCHANGED <<detail_vars, audio_vars, ring_vars, data_vars, flag_vars, mtx>>

\* wait returns after a notification (or a spurious wake-up), the mutex
\* re-acquired.
FftWake ==
    /\ pc["fft"] = "waiting"
    /\ "fft" \notin waiting
    /\ mtx["calc"] = "none"
    /\ Acquire("calc", "fft")
    /\ Goto("fft", "woken")
    /\ UNCHANGED <<detail_vars, audio_vars, ring_vars, data_vars, flag_vars, waiting>>

\* if (!m_stop_workers) after the wake-up: spct_fourier_transform on
\* m_out_array, in place; at shutdown the body is skipped and the lock
\* released at the end of the iteration.
FftWoken ==
    /\ pc["fft"] = "woken"
    /\ IF m_stop_workers
       THEN /\ Release("calc")
            /\ Goto("fft", "loop")
            /\ UNCHANGED m_out_array
       ELSE /\ m_out_array' = [m_out_array EXCEPT !.form = "spectrum"]
            /\ Goto("fft", "maxmap_lock")
            /\ UNCHANGED mtx
    /\ UNCHANGED <<detail_vars, audio_vars, ring_vars, m_bin_mag_arr, osc, held, flag_vars,
                   waiting>>

\* The worker going on into calculate_max_map without taking the mutex.
FftLockMap_Unlocked ==
    /\ pc["fft"] = "maxmap_lock"
    /\ m_bin_mag_arr' = [m_bin_mag_arr EXCEPT !.partial = TRUE]
    /\ Goto("fft", "maxmap")
    /\ UNCHANGED <<detail_vars, audio_vars, ring_vars, m_out_array, osc, held,
                   flag_vars, sync_vars>>

\* std::lock_guard lock{m_bin_mag_array_mtx}, and calculate_max_map starts
\* to overwrite the entries of the map: until it returns the map holds
\* entries of this extraction next to entries of the last one.
FftLockMap ==
    /\ pc["fft"] = "maxmap_lock"
    /\ mtx["binmag"] = "none"
    /\ Acquire("binmag", "fft")
    /\ m_bin_mag_arr' = [m_bin_mag_arr EXCEPT !.partial = TRUE]
    /\ Goto("fft", "maxmap")
    /\ UNCHANGED <<detail_vars, audio_vars, ring_vars, m_out_array, osc, held,
                   flag_vars, waiting>>

\* calculate_max_map returns and the lock_guard is released.
\* calculate_max_map reads m_out_array as it is now: the map is the peak map
\* of a snapshot only if the array still holds that snapshot's spectrum.
FftMaxMap ==
    /\ pc["fft"] = "maxmap"
    /\ m_bin_mag_arr' = [snap |-> m_out_array.snap,
                         valid |-> (m_out_array.form = "spectrum"),
                         partial |-> FALSE]
    /\ Release("binmag")
    /\ Goto("fft", "finish")
    /\ UNCHANGED <<detail_vars, audio_vars, ring_vars, m_out_array, osc, held,
                   flag_vars, waiting>>

\* if (m_continuous_tuning) m_tuning_sp_ptr->signalling_cv.notify_all();
\* m_calculation_sp_ptr->action_done = true; the iteration ends and the
\* unique_lock is released.
FftFinish ==
    /\ pc["fft"] = "finish"
    /\ waiting' = IF m_continuous_tuning THEN Notify(waiting, "tune") ELSE waiting
    /\ action_done' = TRUE
    /\ Release("calc")
    /\ Goto("fft", "loop")
    /\ UNCHANGED <<detail_vars, audio_vars, ring_vars, data_vars, tune_action_done,
                   common_ondition, m_continuous_tuning, m_freeze,
                   m_stop_workers, tm_stop_workers>>

FftWorker ==
    \/ FftLoop
    \/ FftWait
    \/ FftWake
    \/ FftWoken
    \/ FftLockMap
    \/ FftMaxMap
    \/ FftFinish

\* ------------------------------------------------- retune worker
\* ResynthOscs::tune_oscillators_to_fft: every oscillator is given the target
\* the map holds for it.
tune_oscillators_to_fft(o, map) == [target |-> map.snap]

\* The retune pass without the freeze gate.
Retuned_IgnoringFreeze(o, map, freeze) == tune_oscillators_to_fft(o, map)

\* The retune pass with the freeze flag: while freeze is set the map is not
\* applied and the last mapping is held.
Retuned(o, map, freeze) == IF freeze THEN o ELSE tune_oscillators_to_fft(o, map)

\* CalculationEngine::oscillator_tuning: while (!m_stop_workers)
TuneLoop ==
    /\ pc["tune"] = "loop"
    /\ Goto("tune", IF m_stop_workers THEN "done" ELSE "lock")
    /\ UNCHANGED <<detail_vars, audio_vars, ring_vars, data_vars, flag_vars, sync_vars>>

\* unique_lock lock{signalling_mtx}; signalling_cv.wait(lock)
TuneWait ==
    /\ pc["tune"] = "lock"
    /\ mtx["tune"] = "none"
    /\ waiting' = waiting \cup {"tune"}
    /\ Goto("tune", "waiting")
    /\ UNCHANGED <<detail_vars, audio_vars, ring_vars, data_vars, flag_vars, mtx>>

TuneWake ==
    /\ pc["tune"] = "waiting"
    /\ "tune" \notin waiting
    /\ mtx["tune"] = "none"
    /\ Acquire("tune", "tune")
    /\ Goto("tune", "woken")
    /\ UNCHANGED <<detail_vars, audio_vars, ring_vars, data_vars, flag_vars, waiting>>

\* if (!m_stop_workers)
TuneWoken ==
    /\ pc["tune"] = "woken"
    /\ IF m_stop_workers
       THEN Release("tune") /\ Goto("tune", "loop")
       ELSE UNCHANGED mtx /\ Goto("tune", "tune_lock")
    /\ UNCHANGED <<detail_vars, audio_vars, ring_vars, data_vars, flag_vars, waiting>>

\* std::lock_guard lock{m_bin_mag_array_mtx}
TuneLockMap ==
    /\ pc["tune"] = "tune_lock"
    /\ mtx["binmag"] = "none"
    /\ Acquire("binmag", "tune")
    /\ Goto("tune", "tune")
    /\ UNCHANGED <<detail_vars, audio_vars, ring_vars, data_vars, flag_vars, waiting>>

\* The retune pass ending with the lock on the map still held.
TunePass_HoldingMap ==
    /\ pc["tune"] = "tune"
    /\ osc' = Retuned(osc, m_bin_mag_arr, m_freeze)
    /\ held' = (osc' # tune_oscillators_to_fft(osc, m_bin_mag_arr))
    /\ tune_action_done' = TRUE
    /\ Release("tune")
    /\ Goto("tune", "loop")
    /\ UNCHANGED <<detail_vars, audio_vars, ring_vars, m_out_array, m_bin_mag_arr,
                   action_done, common_ondition, m_continuous_tuning, m_freeze,
                   m_stop_workers, tm_stop_workers, waiting>>

\* tune_oscillators_to_fft(m_bin_mag_arr, m_voices); action_done = true; both
\* locks are released at the end of the iteration.
TunePass ==
    /\ pc["tune"] = "tune"
    /\ osc' = Retuned(osc, m_bin_mag_arr, m_freeze)
    /\ held' = (osc' # tune_oscillators_to_fft(osc, m_bin_mag_arr))
    /\ tune_action_done' = TRUE
    /\ mtx' = [mtx EXCEPT !["binmag"] = "none", !["tune"] = "none"]
    /\ Goto("tune", "loop")
    /\ UNCHANGED <<detail_vars, audio_vars, ring_vars, m_out_array, m_bin_mag_arr,
                   action_done, common_ondition, m_continuous_tuning, m_freeze,
                   m_stop_workers, tm_stop_workers, waiting>>

TuneWorker ==
    \/ TuneLoop
    \/ TuneWait
    \/ TuneWake
    \/ TuneWoken
    \/ TuneLockMap
    \/ TunePass

\* ------------------------------------------------- trigger worker
\* TriggerManager::triggered_tuning_worker: while (!m_stop_workers)
TrigLoop ==
    /\ pc["trig"] = "loop"
    /\ Goto("trig", IF tm_stop_workers THEN "done" ELSE "lock")
    /\ UNCHANGED <<detail_vars, audio_vars, ring_vars, data_vars, flag_vars, sync_vars>>

\* unique_lock lock{m_worker_sps.signalling_mtx}; wait_for(lock, interval):
\* only this worker ever locks that mutex.
TrigWait ==
    /\ pc["trig"] = "lock"
    /\ waiting' = waiting \cup {"trig"}
    /\ Goto("trig", "waiting")
    /\ UNCHANGED <<detail_vars, audio_vars, ring_vars, data_vars, flag_vars, mtx>>

\* The worker signalling the tuning cv on every tick, whatever the mode.
TrigTick_Always ==
    /\ pc["trig"] = "waiting"
    /\ waiting' = Notify(waiting \ {"trig"}, "tune")
    /\ Goto("trig", "loop")
    /\ UNCHANGED <<detail_vars, audio_vars, ring_vars, data_vars, flag_vars, mtx>>

\* wait_for returns (the interval has expired or the cv was notified);
\* if (!common_ondition && !m_stop_workers) tuning cv.notify_one(); the
\* iteration ends.
TrigTick ==
    /\ pc["trig"] = "waiting"
    /\ waiting' = IF ~common_ondition /\ ~tm_stop_workers
                  THEN Notify(waiting \ {"trig"}, "tune")
                  ELSE waiting \ {"trig"}
    /\ Goto("trig", "loop")
    /\ UNCHANGED <<detail_vars, audio_vars, ring_vars, data_vars, flag_vars, mtx>>

TrigWorker ==
    \/ TrigLoop
    \/ TrigWait
    \/ TrigTick

\* A spurious wake-up of a worker blocked in condition_variable::wait.
SpuriousWake ==
    /\ \E t \in {"fft", "tune"} \cap waiting : waiting' = waiting \ {t}
    /\ UNCHANGED <<detail_vars, pc, audio_vars, ring_vars, data_vars, flag_vars, mtx>>

\* ------------------------------------------------- host
\* CalculationEngine::set_freeze
set_freeze(freeze) == m_freeze' = freeze

\* TriggerManager::set_triggered_tuning_behaviour
set_triggered_tuning_behaviour(continuous_tuning) ==
    common_ondition' = continuous_tuning

\* InstanceController::update_parameters(params): the fields the pipeline's
\* control flow reads.
UpdateParameters ==
    /\ pc["host"] = "alive"
    /\ \E freeze \in BOOLEAN, continuous_tuning \in BOOLEAN :
        /\ set_freeze(freeze)
        /\ set_triggered_tuning_behaviour(continuous_tuning)
    /\ UNCHANGED <<detail_vars, pc, audio_vars, ring_vars, data_vars, action_done,
                   tune_action_done, m_continuous_tuning, m_stop_workers,
                   tm_stop_workers, sync_vars>>

\* ~InstanceController destroys m_trigger_manager first, while no audio
\* callback runs. ~TriggerManager: m_stop_workers = true
DtorBegin ==
    /\ pc["host"] = "alive"
    /\ pc["audio"] = "idle"
    /\ tm_stop_workers' = TRUE
    /\ Goto("host", "tm_notify")
    /\ UNCHANGED <<detail_vars, audio_vars, ring_vars, data_vars, action_done,
                   tune_action_done, common_ondition, m_continuous_tuning,
                   m_freeze, m_stop_workers, sync_vars>>

\* ~TriggerManager: m_worker_sps.signalling_cv.notify_one()
DtorTrigNotify ==
    /\ pc["host"] = "tm_notify"
    /\ waiting' = Notify(waiting, "trig")
    /\ Goto("host", "tm_join")
    /\ UNCHANGED <<detail_vars, audio_vars, ring_vars, data_vars, flag_vars, mtx>>

\* ~TriggerManager: m_trigger_worker.join(); then ~CalculationEngine:
\* m_stop_workers = true
DtorTrigJoin ==
    /\ pc["host"] = "tm_join"
    /\ pc["trig"] = "done"
    /\ m_stop_workers' = TRUE
    /\ Goto("host", "ce_notify_calc")
    /\ UNCHANGED <<detail_vars, audio_vars, ring_vars, data_vars, action_done,
                   tune_action_done, common_ondition, m_continuous_tuning,
                   m_freeze, tm_stop_workers, sync_vars>>

\* ~CalculationEngine: m_calculation_sp_ptr->signalling_cv.notify_all()
DtorNotifyCalc ==
    /\ pc["host"] = "ce_notify_calc"
    /\ waiting' = Notify(waiting, "fft")
    /\ Goto("host", "ce_notify_tune")
    /\ UNCHANGED <<detail_vars, audio_vars, ring_vars, data_vars, flag_vars, mtx>>

\* ~CalculationEngine: m_tuning_sp_ptr->signalling_cv.notify_all()
DtorNotifyTune ==
    /\ pc["host"] = "ce_notify_tune"
    /\ waiting' = Notify(waiting, "tune")
    /\ Goto("host", "ce_join_fft")
    /\ UNCHANGED <<detail_vars, audio_vars, ring_vars, data_vars, flag_vars, mtx>>

\* ~CalculationEngine: m_fft_worker.join()
DtorJoinFft ==
    /\ pc["host"] = "ce_join_fft"
    /\ pc["fft"] = "done"
    /\ Goto("host", "ce_join_tune")
    /\ UNCHANGED <<detail_vars, audio_vars, ring_vars, data_vars, flag_vars, sync_vars>>

\* ~CalculationEngine: m_tuning_worker.join()
DtorJoinTune ==
    /\ pc["host"] = "ce_join_tune"
    /\ pc["tune"] = "done"
    /\ Goto("host", "destroyed")
    /\ UNCHANGED <<detail_vars, audio_vars, ring_vars, data_vars, flag_vars, sync_vars>>

\* The destructor once it has begun.
DtorStep ==
    \/ DtorTrigNotify
    \/ DtorTrigJoin
    \/ DtorNotifyCalc
    \/ DtorNotifyTune
    \/ DtorJoinFft
    \/ DtorJoinTune

Host == UpdateParameters \/ DtorBegin \/ DtorStep

\* ------------------------------------------------- peak extraction
\* Magnitudes of the bins 0 .. N/2 - 1 an FFT can leave in the out array.
Spectra == [1..VIEW_SIZE -> 0..MaxMag]

\* The threshold taken as given, without the floor of 1.
clipped_threshold_Unclipped(t) == t

\* const T clipped_threshold = threshold >= 1 ? threshold : 1;
clipped_threshold(t) == IF t >= 1 THEN t ELSE 1

\* The loop of calculate_max_map over bins first .. N/2 - 1: a bin whose
\* magnitude reaches the clipped threshold is written at index valid, the
\* entries beyond the last one written keep what they held.
RECURSIVE WritePeaks(_, _, _, _, _)
WritePeaks(samples_arr, arr, t, bin_number, valid) ==
    IF bin_number >= VIEW_SIZE THEN [arr |-> arr, valid |-> valid]
    ELSE IF samples_arr[bin_number + 1] >= clipped_threshold(t)
         THEN WritePeaks(samples_arr,
                         [arr EXCEPT ![valid + 1] =
                              <<bin_number, samples_arr[bin_number + 1]>>],
                         t, bin_number + 1, valid + 1)
         ELSE WritePeaks(samples_arr, arr, t, bin_number + 1, valid)

\* std::partial_sort(begin, begin + middle, end, a.second > b.second): the
\* results the standard allows. The first middle places hold the middle
\* largest magnitudes of the WHOLE array in descending order; the order of
\* the rest, and of equal magnitudes, is unspecified.
partial_sort(arr, middle) ==
    { r \in { [i \in 1..Len(arr) |-> arr[q[i]]] :
                 q \in Permutations(1..Len(arr)) } :
        \A i \in 1..middle : \A j \in (i + 1)..Len(arr) :
            r[i][2] >= r[j][2] }

\* calculate_max_map(samples_arr, bin_mag_arr, threshold) for one spectrum
\* and one threshold, from 0 to one above the largest magnitude.
calculate_max_map ==
    \E samples_arr \in Spectra : \E t \in 0..(MaxMag + 1) :
        LET w == WritePeaks(samples_arr, bin_mag_arr, t, 0, 0) IN
        /\ bin_mag_arr' \in partial_sort(w.arr, w.valid)
        /\ valid_entries' = w.valid
        /\ threshold' = t
        /\ spectrum' = samples_arr
        /\ UNCHANGED <<unit_vars, engine_vars, m_osc_array, play_vars>>

\* ------------------------------------------------- one oscillator
\* The calls on a single WTOscillator, m_osc_array[1].
OscTune ==
    \E to_freq \in (-1)..(m_nyquist_freq + 1) : \E amplitude \in 0..MaxTarget :
        /\ m_osc_array' =
              [m_osc_array EXCEPT ![1] = tune_and_set_amp(@, to_freq, amplitude)]
        /\ UNCHANGED <<unit_vars, engine_vars, map_vars, play_vars>>

OscAdvance ==
    \E o \in advance_and_receive_output(m_osc_array[1]) :
        /\ m_osc_array' = [m_osc_array EXCEPT ![1] = o]
        /\ UNCHANGED <<unit_vars, engine_vars, map_vars, play_vars>>

OscSetGlideSteps ==
    \E glide_steps \in 1..MaxGlide :
        /\ m_osc_array' =
              [m_osc_array EXCEPT ![1] = set_glide_steps(@, glide_steps)]
        /\ UNCHANGED <<unit_vars, engine_vars, map_vars, play_vars>>

OscReset ==
    /\ m_osc_array' = [m_osc_array EXCEPT ![1] = WTOscillator_reset(@)]
    /\ UNCHANGED <<unit_vars, engine_vars, map_vars, play_vars>>

\* ------------------------------------------------- the instance
\* ResynthOscs::tune_oscillators_to_fft(bin_mag_arr, num_voices): oscillator
\* k of the first num_voices is tuned to entry k of the map, whatever the
\* number of valid entries; the others are tuned to (0, 0). The amplitude is
\* in units of m_amp_correction, m_freq_resolution is one bin width.
ResynthOscs_tune(arr, map, num_voices, freq_offset) ==
    [k \in 1..NUM_OSCS |->
        IF k <= num_voices
        THEN tune_and_set_amp(arr[k], map[k][1] + freq_offset, map[k][2])
        ELSE tune_and_set_amp(arr[k], 0, 0)]

\* The tune_and_set_amp calls tune_oscillators_to_fft(map, num_voices) makes,
\* in order, each as <<nth_osc, to_freq, amplitude>>: the first loop runs
\* over std::views::counted(begin, num_voices), num_voices as given; the
\* second over the NUM_OSCS - num_active_oscs entries that follow, nth_osc
\* counting on from where the first loop left it.
TuneCalls(map, num_voices, freq_offset) ==
    LET num_active_oscs == clamped(num_voices, 0, NUM_OSCS)
        num_silent_oscs == NUM_OSCS - num_active_oscs
    IN  [i \in 1..num_voices |-> <<i - 1, map[i][1] + freq_offset, map[i][2]>>]
        \o [j \in 1..num_silent_oscs |-> <<num_voices + j - 1, 0, 0>>]

\* The oscillators after the calls: m_osc_array[nth_osc] is tuned by each
\* call whose nth_osc lies in the array.
RECURSIVE ApplyCalls(_, _)
ApplyCalls(arr, calls) ==
    IF calls = << >> THEN arr
    ELSE LET call == Head(calls) IN
         ApplyCalls(IF call[1] < NUM_OSCS
                    THEN [arr EXCEPT ![call[1] + 1] =
                              tune_and_set_amp(@, call[2], call[3])]
                    ELSE arr,
                    Tail(calls))

\* What a call on m_osc_array[nth_osc] past the array's end can leave in
\* m_freq_offset, the member the class lays out after the array.
Overwritten == {0, 1}

\* ResynthOscs::tune_oscillators_to_fft(m_bin_mag_arr, num_voices), for the
\* clamped and the unclamped numbers of voices.
tune_oscillators_to_fft_call ==
    \E num_voices \in 0..(NUM_OSCS + 1) :
        LET calls == TuneCalls(bin_mag_arr, num_voices, members.m_freq_offset)
        IN  /\ tunes < MaxTunes
            /\ tunes' = tunes + 1
            /\ tune_calls' = calls
            /\ tune_voices' = num_voices
            /\ m_osc_array' = ApplyCalls(m_osc_array, calls)
            /\ IF \E i \in 1..Len(calls) : calls[i][1] >= NUM_OSCS
               THEN \E offset \in Overwritten :
                       members' = [members EXCEPT !.m_freq_offset = offset]
               ELSE UNCHANGED members
            /\ last_op' = "tune"
            /\ UNCHANGED <<engine_vars, map_vars, zero_run, last_params, windows,
                           advances, table_vars, pow_vars, stage_vars, fft_vars,
                           rev_vars>>

\* ResynthOscs::reset resetting each oscillator to the amplitude it was
\* last tuned to.
ResynthOscs_reset_ToLastTarget(arr) ==
    [k \in 1..NUM_OSCS |->
        [WTOscillator_reset(arr[k]) EXCEPT
            !.m_amplitude = arr[k].m_prev_amplitude,
            !.m_prev_amplitude = arr[k].m_amplitude]]

\* ResynthOscs::reset(sampling_freq), the oscillators' part.
ResynthOscs_reset(arr) == [k \in 1..NUM_OSCS |-> WTOscillator_reset(arr[k])]

\* ResynthOscs::reset (m_freq_offset = 0) and BufferManager::reset
\* (m_previous_sample = 0), the members' part.
reset_members(m) ==
    [m EXCEPT !.m_freq_offset = 0, !.m_previous_sample = "zero"]

\* ResynthOscs::set_frequency_offset shifting the offset it has.
set_frequency_offset_Relative(m, freq_offset) ==
    [m EXCEPT !.m_freq_offset = @ + freq_offset]

\* ResynthOscs::set_frequency_offset(freq_offset)
set_frequency_offset(m, freq_offset) == [m EXCEPT !.m_freq_offset = freq_offset]

\* The members after update_parameters(params): set_frequency_offset,
\* set_voices, set_threshold, set_cutoff, set_gain, set_trigger_interval.
updated_members(m, params) ==
    [set_frequency_offset(m, params.frequency_offset) EXCEPT
        !.m_gain = clamped(params.gain, 0, 2),
        !.m_voices = clamped(params.voices, 0, NUM_OSCS),
        !.m_threshold = params.fft_threshold,
        !.m_alpha = params.filter_cutoff,
        !.m_tuning_interval = clamped(params.tune_interval_ms, 1, 5000)]

\* The oscillators after update_parameters(params): select_waveform and
\* set_glide_steps on every oscillator.
updated_oscs(arr, params) ==
    [k \in 1..NUM_OSCS |->
        [set_glide_steps(arr[k], params.glide_steps) EXCEPT
            !.m_wt_ptr = params.waveform_selection]]

\* InstanceController::update_parameters(params)
update_parameters ==
    \E params \in FxParameters :
        /\ m_osc_array' = updated_oscs(m_osc_array, params)
        /\ members' = updated_members(members, params)
        /\ set_freeze(params.freeze)
        /\ set_triggered_tuning_behaviour(params.continuous_tuning)
        /\ last_op' = "update_parameters"
        /\ last_params' = params
        /\ zero_run' = 0
        /\ UNCHANGED <<unit_vars, pc, audio_vars, ring_vars, data_vars, action_done,
                       tune_action_done, m_continuous_tuning, m_stop_workers,
                       tm_stop_workers, sync_vars, map_vars, windows, advances>>

\* fft_calculation over one window: the transform leaves the spectrum
\* samples_arr and calculate_max_map runs with m_threshold.
AnalyseWindow(samples_arr) ==
    LET w == WritePeaks(samples_arr, bin_mag_arr, members.m_threshold, 0, 0) IN
    /\ windows < MaxWindows
    /\ windows' = windows + 1
    /\ bin_mag_arr' \in partial_sort(w.arr, w.valid)
    /\ valid_entries' = w.valid
    /\ threshold' = members.m_threshold
    /\ spectrum' = samples_arr
    /\ last_op' = "process"
    /\ UNCHANGED <<unit_vars, engine_vars, m_osc_array, members, last_params, advances>>

\* A window holding some non-zero sample has been fed and analysed.
process_sound ==
    /\ \E samples_arr \in Spectra : AnalyseWindow(samples_arr)
    /\ zero_run' = 0

\* A whole window of zero samples has been fed and analysed: every bin of
\* its spectrum is 0.
process_zeros ==
    /\ AnalyseWindow([bin \in 1..VIEW_SIZE |-> 0])
    /\ zero_run' = IF zero_run = 0 THEN 0 ELSE IF zero_run = 1 THEN 2 ELSE zero_run

\* oscillator_tuning over the map, held back while the freeze is on.
retune ==
    /\ m_osc_array' =
          IF m_freeze THEN m_osc_array
          ELSE ResynthOscs_tune(m_osc_array, bin_mag_arr, members.m_voices,
                                members.m_freq_offset)
    /\ zero_run' = IF zero_run = 2 /\ ~m_freeze THEN 3 ELSE zero_run
    /\ last_op' = "retune"
    /\ UNCHANGED <<unit_vars, engine_vars, map_vars, members, last_params, windows,
                   advances>>

\* One output sample of fill_in_and_out_buffers: every oscillator advances
\* (ResynthOscs::receive_output) and the sum goes through the gain and the
\* low-pass filter. The sample is zero when every amplitude is 0, the gain
\* is 0 or not, and the filter holds nothing.
receive_output ==
    /\ advances < MaxAdvances
    /\ advances' = advances + 1
    /\ \E arr \in [1..NUM_OSCS -> UNION {advance_and_receive_output(m_osc_array[k]) :
                                            k \in 1..NUM_OSCS}] :
          /\ \A k \in 1..NUM_OSCS : arr[k] \in advance_and_receive_output(m_osc_array[k])
          /\ m_osc_array' = arr
          /\ members' =
                [members EXCEPT !.m_previous_sample =
                    IF /\ \A k \in 1..NUM_OSCS : arr[k].m_amplitude = 0
                       /\ (members.m_alpha = 0 \/ @ = "zero")
                    THEN "zero" ELSE "sound"]
    /\ last_op' = "receive_output"
    /\ UNCHANGED <<unit_vars, engine_vars, map_vars, zero_run, last_params, windows>>

\* InstanceController::prepare_to_play(sampling_freq): the sampling
\* frequency is stored and the ring is cleared; nothing else is touched.
prepare_to_play ==
    /\ m_ringbuffer_index' = 0
    /\ adv_count' = 0
    /\ adv_since_true' = 0
    /\ adv_had_true' = FALSE
    /\ m_out_array' = [snap |-> 0, form |-> "windowed"]
    /\ zero_run' = 1
    /\ last_op' = "prepare_to_play"
    /\ UNCHANGED <<unit_vars, pc, audio_vars, m_bin_mag_arr, osc, held, flag_vars,
                   sync_vars, map_vars, m_osc_array, members, last_params,
                   windows, advances>>

\* InstanceController::reset(): clear_arrays, ResynthOscs::reset and
\* BufferManager::reset.
reset ==
    /\ m_ringbuffer_index' = 0
    /\ adv_count' = 0
    /\ adv_since_true' = 0
    /\ adv_had_true' = FALSE
    /\ m_out_array' = [snap |-> 0, form |-> "windowed"]
    /\ m_osc_array' = ResynthOscs_reset(m_osc_array)
    /\ members' = reset_members(members)
    /\ zero_run' = 0
    /\ last_op' = "reset"
    /\ UNCHANGED <<unit_vars, pc, audio_vars, m_bin_mag_arr, osc, held, flag_vars,
                   sync_vars, map_vars, last_params, windows, advances>>

\* ------------------------------------------------- specification
Next ==
    \/ AudioThread
    \/ FftWorker
    \/ TuneWorker
    \/ TrigWorker
    \/ SpuriousWake
    \/ Host

Spec == Init /\ [][Next]_vars

\* The audio path alone: a stream of process_daw_chunk calls with the arrays
\* cleared between calls at will, no worker scheduled.
AudioNext == AudioThread \/ clear_arrays

AudioSpec == Init /\ [][AudioNext]_vars

\* Fair scheduling: a thread that can take a step eventually takes it. The
\* host is not obliged to call process_daw_chunk again, to change a
\* parameter or to start the destructor; spurious wake-ups need not happen.
\* Peak extractions alone, over every spectrum and threshold, each starting
\* from the map the previous one left.
MapNext == calculate_max_map

MapSpec == Init /\ [][MapNext]_vars

\* One oscillator under every order of tune, advance, set_glide_steps and
\* reset calls.
OscNext == OscTune \/ OscAdvance \/ OscSetGlideSteps \/ OscReset

OscSpec == OscInit /\ [][OscNext]_vars

\* The state once the host's first update_parameters has passed a glide
\* length and a number of voices, the other parameters as constructed.
PlayInit ==
    /\ EngineInit
    /\ UnitsIdle
    /\ \E glide_steps \in 1..MaxGlide : \E voices \in 0..NUM_OSCS :
          /\ m_osc_array =
                [k \in 1..NUM_OSCS |->
                    set_glide_steps(WTOscillator, glide_steps)]
          /\ members = [Members EXCEPT !.m_voices = voices]

\* The instance seen from its host, window by window and sample by sample.
PlayNext ==
    \/ process_sound
    \/ process_zeros
    \/ retune
    \/ receive_output
    \/ prepare_to_play
    \/ reset

PlaySpec == PlayInit /\ [][PlayNext]_vars

\* The host's parameter updates and resets alone.
ParamNext == update_parameters \/ reset

ParamSpec == Init /\ [][ParamNext]_vars

\* A wavetable on its own, built from any generating function, as the
\* wavetable test builds and equalizes one.
TableInit ==
    /\ EngineInit
    /\ m_osc_array = [k \in 1..NUM_OSCS |-> WTOscillator]
    /\ members = Members
    /\ \E function \in Generators : m_wavetable = WaveTable(function)
    /\ PowIdle
    /\ StageIdle
    /\ FftIdle
    /\ RevIdle

\* A call of equalize_end_and_begin() on the table.
WaveTable_equalize ==
    /\ wt_prev' = m_wavetable
    /\ m_wavetable' = equalize_end_and_begin(m_wavetable)
    /\ UNCHANGED <<system_vars, pow_vars, stage_vars, fft_vars, tune_vars,
                   rev_vars>>

TableNext == WaveTable_equalize

TableSpec == TableInit /\ [][TableNext]_vars

\* A call of pow_two_value_of_degree<T>(degree) about to be made, for each
\* type and each degree.
PowInit ==
    /\ EngineInit
    /\ m_osc_array = [k \in 1..NUM_OSCS |-> WTOscillator]
    /\ members = Members
    /\ TableIdle
    /\ pow_width \in Widths
    /\ pow_degree \in 0..MaxDegree
    /\ pow_value = {-1}
    /\ StageIdle
    /\ FftIdle
    /\ RevIdle

\* The call returns.
PowCall ==
    /\ pow_value = {-1}
    /\ pow_value' = pow_two_value_of_degree(pow_width, pow_degree)
    /\ UNCHANGED <<system_vars, table_vars, pow_width, pow_degree, stage_vars,
                   fft_vars, tune_vars, rev_vars>>

PowNext == PowCall

PowSpec == PowInit /\ [][PowNext]_vars

\* spct_fourier_transform<T, DEG_TWO> at the head of its butterfly loop, for
\* each accepted degree up to MaxFftDegree, with a fresh ExponentLUT.
StageInit ==
    /\ EngineInit
    /\ m_osc_array = [k \in 1..NUM_OSCS |-> WTOscillator]
    /\ members = Members
    /\ TableIdle
    /\ PowIdle
    /\ FftIdle
    /\ RevIdle
    /\ DEG_TWO \in min_pow_two_degree..MaxFftDegree
    /\ current_pot = 2
    /\ current_exp_array_index = 0
    /\ m_act_array_index = 0
    /\ inner_ndx = -1
    /\ stage_pc = "while"

\* The while condition and exponent_lut.choose_array(current_exp_array_index).
StageChoose ==
    /\ stage_pc = "while"
    /\ IF current_pot <= 2 ^ DEG_TWO
       THEN /\ m_act_array_index' =
                  choose_array(current_exp_array_index, LastArrayIndex)
            /\ stage_pc' = "for"
       ELSE /\ stage_pc' = "done"
            /\ UNCHANGED m_act_array_index
    /\ inner_ndx' = -1
    /\ UNCHANGED <<system_vars, table_vars, pow_vars, fft_vars, tune_vars, rev_vars,
                   DEG_TWO, current_pot, current_exp_array_index>>

\* One pass of the inner loop: the lookup exponent_lut[inner_ndx]; the
\* passes of every outer_ndx look up the same indices.
StageLookup ==
    /\ stage_pc = "for"
    /\ inner_ndx + 1 < current_pot \div 2
    /\ inner_ndx' = inner_ndx + 1
    /\ UNCHANGED <<system_vars, table_vars, pow_vars, fft_vars, tune_vars, rev_vars,
                   DEG_TWO, current_pot, current_exp_array_index, m_act_array_index,
                   stage_pc>>

\* The loops are left: ++current_exp_array_index; current_pot <<= 1.
StageAdvance ==
    /\ stage_pc = "for"
    /\ inner_ndx + 1 >= current_pot \div 2
    /\ current_exp_array_index' = current_exp_array_index + 1
    /\ current_pot' = current_pot * 2
    /\ stage_pc' = "while"
    /\ UNCHANGED <<system_vars, table_vars, pow_vars, fft_vars, tune_vars, rev_vars,
                   DEG_TWO, m_act_array_index, inner_ndx>>

StageNext == StageChoose \/ StageLookup \/ StageAdvance

StageSpec == StageInit /\ [][StageNext]_vars

\* A window holding a real sinusoid at a bin below half the size, at any of
\* eight phases, about to be transformed.
FftInit ==
    /\ EngineInit
    /\ m_osc_array = [k \in 1..NUM_OSCS |-> WTOscillator]
    /\ members = Members
    /\ TableIdle
    /\ PowIdle
    /\ StageIdle
    /\ RevIdle
    /\ fft_degree \in FftDegrees
    /\ fft_bin \in 0..(2 ^ (fft_degree - 1) - 1)
    /\ \E phase \in 0..(2 * HalfRoot - 1) :
          fft_samples_arr = Sinusoid(fft_degree, fft_bin, phase)
    /\ transformed = FALSE

\* The call spct_fourier_transform(samples_arr, exponent_lut).
FftCall ==
    /\ ~transformed
    /\ \E past_end \in [0..(HalfRoot - 1) -> Garbage] :
          fft_samples_arr' =
              spct_fourier_transform(fft_samples_arr, fft_degree, past_end)
    /\ transformed' = TRUE
    /\ UNCHANGED <<system_vars, table_vars, pow_vars, stage_vars, tune_vars, rev_vars,
                   fft_degree, fft_bin>>

FftNext == FftCall

FftSpec == FftInit /\ [][FftNext]_vars

\* The bank with any frequency offset set, given peak maps by the analysis of
\* up to MaxWindows windows and tuned to them with any number of voices.
TuneInit ==
    /\ EngineInit
    /\ UnitsIdle
    /\ m_osc_array = [k \in 1..NUM_OSCS |-> WTOscillator]
    /\ \E freq_offset \in 0..1 :
          members = set_frequency_offset(Members, freq_offset)

TuneNext == process_sound \/ tune_oscillators_to_fft_call

TuneSpec == TuneInit /\ [][TuneNext]_vars

FairSpec ==
    /\ Spec
    /\ WF_vars(AudioStep)
    /\ WF_vars(FftWorker)
    /\ WF_vars(TuneWorker)
    /\ WF_vars(TrigWorker)
    /\ WF_vars(DtorStep)

\* ================================================= claims
\* The FFT worker is in a pass: from its wake-up (the signalling mutex
\* re-acquired) up to the end of the iteration, where action_done is set.
FftBusy == pc["fft"] \in {"woken", "maxmap_lock", "maxmap", "finish"}

\* The FFT worker is in a pass over a published snapshot.
PassOverSnapshot == FftBusy /\ m_out_array.snap > 0

\* The audio thread takes its copy_to_output step.
CopyStep == pc["audio"] = "copy" /\ pc'["audio"] = "notify"

\* C1: the ring's out array has a single owner at a time: the audio thread
\* never runs copy_to_output between the FFT worker's wake-up for a snapshot
\* and the worker setting action_done back to true.
C1_SingleOwner == [][CopyStep => ~PassOverSnapshot]_vars

\* C1 (case): copy_to_output runs over a snapshot the FFT worker has already
\* transformed and not yet read into the peak map.
C1_CopyDuringPass ==
    /\ pc["audio"] = "notify"
    /\ pc["fft"] \in {"maxmap_lock", "maxmap"}
    /\ m_out_array.form = "windowed"

\* The notification for the snapshot now in out has been issued and no pass
\* of the FFT worker has read that snapshot (or a newer one) into the peak map.
HandOffPending ==
    /\ pc["host"] = "alive"
    /\ pc["audio"] # "notify"
    /\ m_bin_mag_arr.snap < m_out_array.snap

\* C2: under fair scheduling every notification issued after copy_to_output
\* is eventually followed by a pass of the FFT worker over that snapshot,
\* whether or not the worker was waiting at the moment of the notify.
C2_HandOff == HandOffPending ~> ~HandOffPending

\* The readiness check of a for-loop iteration is evaluated.
ReadinessCheck ==
    /\ pc["audio"] = "while"
    /\ m_initiate_fft
    /\ <<pc["audio"], step>>' # <<pc["audio"], step>>

\* C3: a wrap that arrives while the FFT worker is still busy is skipped:
\* the readiness check performs no copy_to_output and keeps the pending-FFT
\* flag set, so at most one FFT is pending or running.
C3_WrapSkipped ==
    [][(ReadinessCheck /\ FftBusy) =>
            (pc'["audio"] # "copy" /\ m_initiate_fft')]_vars

\* process_daw_chunk has returned from a call on a chunk of t_size samples.
Returned == pc["audio"] = "idle" /\ delivered > 0

\* C4: after a call no sample of the chunk still holds its input value and
\* the ring cursor has advanced by exactly t_size modulo the buffer size, for
\* every chunk length and every starting cursor.
C4_EverySampleOnce ==
    Returned =>
        /\ \A j \in 1..t_size : daw_chunk[j] = "out"
        /\ fed = [j \in 1..t_size |-> j - 1]
        /\ m_ringbuffer_index = (start_index + t_size) % FFT_SIZE

\* ~CalculationEngine has set the stop flag and called notify_all on both
\* condition variables; the joins follow.
StopAnnounced == pc["host"] \in {"ce_join_fft", "ce_join_tune"}

\* C5: after the destructor has set the stop flag and notified both condition
\* variables, both workers eventually leave their loops and both joins
\* return, whatever state each worker was in when the flag was set.
C5_JoinsReturn == StopAnnounced ~> (pc["host"] = "destroyed")

\* The FFT worker ends a pass (the step that signals the retune worker's cv).
FftCompletes == pc["fft"] = "finish" /\ pc'["fft"] # "finish"

\* C6: while continuous_tuning is false the completion of an FFT never
\* signals the retune worker's condition variable: only trigger ticks do.
C6_TriggerOnly ==
    [][(FftCompletes /\ ~common_ondition) => waiting' = waiting]_vars

\* An FFT pass has completed and its peak map is newer than the map the
\* oscillators are tuned to, in continuous mode with the pipeline running.
RetuneDue ==
    /\ pc["host"] = "alive"
    /\ common_ondition
    /\ ~m_freeze
    /\ pc["fft"] # "finish"
    /\ osc.target < m_bin_mag_arr.snap

\* C7: while continuous_tuning is true every completed FFT is eventually
\* followed by a retune pass that maps its peak map (or a newer one) onto
\* the oscillators.
C7_RetuneFollows == RetuneDue ~> ~RetuneDue

InCall == pc["audio"] # "idle"

\* C9: process_daw_chunk never waits: while a call is in progress its next
\* step is enabled whatever the workers hold or do, and the call takes a
\* number of steps bounded by the chunk length.
C9_NeverWaits ==
    /\ InCall => ENABLED AudioStep
    /\ audio_steps <= 4 * t_size + 1

\* C9 (case): the audio thread is about to notify a second snapshot while the
\* FFT worker holds the signalling mutex in its pass.
C9_NotifyWhileLocked ==
    /\ pc["audio"] = "notify"
    /\ mtx["calc"] = "fft"
    /\ m_out_array.snap > 1

\* C10: advance() returns true once per N/2 calls: never more than N/2 - 1
\* calls in a row return false.
C10_OncePerHalf == adv_since_true < VIEW_SIZE

Publishing == pc["audio"] \in {"copy", "notify"}

\* C12: a call with chunk length n < N completes without publishing a
\* snapshot and without notifying the FFT worker.
C12_ShortChunkSilent == Publishing => t_size >= FFT_SIZE

\* C12 (amended): a call with n < N publishes at most one snapshot, and only
\* in a call during which the ring cursor reaches N/2: the publish comes
\* with the cursor at N/2.
C12_ShortChunkAtHalf ==
    t_size < FFT_SIZE =>
        /\ publishes <= 1
        /\ Publishing => m_ringbuffer_index = VIEW_SIZE

\* C12 (case): a short chunk has published and finished its tail loop.
C12_ShortChunkPublished ==
    /\ Returned
    /\ t_size < FFT_SIZE
    /\ publishes = 1
    /\ m_ringbuffer_index > VIEW_SIZE

\* C13: a call with n > N performs floor(n/N) + 1 readiness checks and
\* publishes at most one snapshot.
C13_LongChunkOnce ==
    t_size > FFT_SIZE =>
        /\ publishes <= 1
        /\ Returned => step = (t_size \div FFT_SIZE) + 1

\* C14: after a peak extraction with threshold t, each of the first
\* valid_entries entries of the peak map has a magnitude of at least
\* max(t, 1), and their magnitudes are in non-increasing order.
C14_PeaksAboveThreshold ==
    /\ \A i \in 1..valid_entries :
          /\ bin_mag_arr[i][2] >= threshold
          /\ bin_mag_arr[i][2] >= 1
    /\ \A i \in 1..valid_entries : \A j \in i..valid_entries :
          bin_mag_arr[i][2] >= bin_mag_arr[j][2]

\* C14 (case): an extraction under a threshold below the floor has returned
\* two entries of different magnitude.
C14_TwoPeaks ==
    /\ valid_entries >= 2
    /\ threshold = 0
    /\ bin_mag_arr[1][2] > bin_mag_arr[2][2]

\* C15: once an oscillator has been tuned and then advanced at least
\* glide_steps times in a row, its increment and its amplitude equal the
\* targets of that tune, whatever state it was tuned in.
C15_GlideArrives ==
    \A k \in 1..NUM_OSCS :
        LET o == m_osc_array[k] IN
        (o.since_tune >= 0 /\ o.since_tune >= o.glide_steps) =>
            /\ o.m_index_increment = o.m_prev_index_increment
            /\ o.m_amplitude = o.m_prev_amplitude

\* C16: at every advance after a tune, a value whose target was raised is
\* not above the target and a value whose target was lowered is not below
\* it, for the increment and for the amplitude.
C16_NeverPastTarget ==
    \A k \in 1..NUM_OSCS :
        LET o == m_osc_array[k] IN
        o.since_tune >= 1 =>
            /\ o.m_prev_index_increment > o.from[1] =>
                  o.m_index_increment <= o.m_prev_index_increment
            /\ o.m_prev_index_increment < o.from[1] =>
                  o.m_index_increment >= o.m_prev_index_increment
            /\ o.m_prev_amplitude > o.from[2] =>
                  o.m_amplitude <= o.m_prev_amplitude
            /\ o.m_prev_amplitude < o.from[2] =>
                  o.m_amplitude >= o.m_prev_amplitude

\* C17: once prepare_to_play has returned, a whole window of zeros has been
\* analysed and the oscillators have been retuned, every oscillator's target
\* amplitude is 0 and every output sample is zero.
C17_SilenceAfterZeros ==
    zero_run = 3 =>
        /\ \A k \in 1..NUM_OSCS : m_osc_array[k].m_prev_amplitude = 0
        /\ last_op = "receive_output" => members.m_previous_sample = "zero"

\* C18: when prepare_to_play returns the ring cursor is 0, the ring arrays
\* are cleared, every oscillator is muted with its table index at 0, and
\* both action_done flags are true.
C18_PreparedState ==
    last_op = "prepare_to_play" =>
        /\ m_ringbuffer_index = 0
        /\ m_out_array.snap = 0
        /\ \A k \in 1..NUM_OSCS :
              /\ m_osc_array[k].m_prev_amplitude = 0
              /\ m_osc_array[k].m_prev_index_increment = 0
              /\ m_osc_array[k].m_table_index = 0
        /\ action_done
        /\ tune_action_done

\* C19: reset() is idempotent: in the state a reset() has left, the ring is
\* cleared and a second reset() would leave every oscillator and the
\* low-pass filter state as they are.
C19_ResetIdempotent ==
    last_op = "reset" =>
        /\ m_ringbuffer_index = 0
        /\ m_out_array.snap = 0
        /\ ResynthOscs_reset(m_osc_array) = m_osc_array
        /\ reset_members(members) = members

\* C19 (case): a reset() has come to an oscillator that was playing: the
\* target amplitude from before the reset is still held.
C19_ResetWhilePlaying ==
    /\ last_op = "reset"
    /\ advances > 0
    /\ \E k \in 1..NUM_OSCS : m_osc_array[k].m_prev_amplitude > 0

\* C20: update_parameters is idempotent: in the state update_parameters(p)
\* has left, a second update_parameters(p) would change nothing.
C20_UpdateIdempotent ==
    last_op = "update_parameters" =>
        /\ updated_oscs(m_osc_array, last_params) = m_osc_array
        /\ updated_members(members, last_params) = members
        /\ m_freeze = last_params.freeze
        /\ common_ondition = last_params.continuous_tuning

\* C20 (case): an update has clamped the gain, the voices and the glide
\* length it was given.
C20_ClampedUpdate ==
    /\ last_op = "update_parameters"
    /\ last_params.gain > members.m_gain
    /\ last_params.voices > members.m_voices
    /\ last_params.glide_steps = 0
    /\ members.m_freq_offset = 1

\* C21: after update_parameters(p) the stored gain is in [0, 2], the voice
\* count in [0, NUM_OSCS], the trigger interval in [1, 5000] and the glide
\* length in [1, 65535]: each is the nearest value of its range to the one
\* given, so the update is applied whatever p holds.
C21_StoredInRange ==
    last_op = "update_parameters" =>
        /\ members.m_gain \in 0..2
        /\ members.m_voices \in 0..NUM_OSCS
        /\ members.m_tuning_interval \in 1..5000
        /\ \A k \in 1..NUM_OSCS : m_osc_array[k].glide_steps \in 1..65535
        /\ last_params.gain \in 0..2 => members.m_gain = last_params.gain
        /\ last_params.voices \in 0..NUM_OSCS =>
              members.m_voices = last_params.voices
        /\ last_params.tune_interval_ms \in 1..5000 =>
              members.m_tuning_interval = last_params.tune_interval_ms
        /\ last_params.glide_steps >= 1 =>
              \A k \in 1..NUM_OSCS :
                  m_osc_array[k].glide_steps = last_params.glide_steps

\* C21 (case): an update whose gain, voices, interval and glide length were
\* all out of range has been applied, each stored at the end of its range.
C21_AllClamped ==
    /\ last_op = "update_parameters"
    /\ last_params.gain = -1 /\ members.m_gain = 0
    /\ last_params.voices = NUM_OSCS + 1 /\ members.m_voices = NUM_OSCS
    /\ last_params.tune_interval_ms = 5001 /\ members.m_tuning_interval = 5000
    /\ last_params.glide_steps = 0 /\ m_osc_array[1].glide_steps = 1

\* C22: after equalize_end_and_begin() on a periodic wavetable of size
\* WT_SIZE, entry WT_SIZE - 1 equals entry 0 and the entries 0 .. WT_SIZE - 2
\* are the ones the table held before the call.
C22_EndEqualsBegin ==
    wt_prev # << >> =>
        /\ m_wavetable[WT_SIZE] = m_wavetable[1]
        /\ \A index \in 1..(WT_SIZE - 1) : m_wavetable[index] = wt_prev[index]

\* C22 (case): a table whose last entry differed from its first has been
\* equalized.
C22_EqualizedUnequal ==
    /\ wt_prev # << >>
    /\ wt_prev[WT_SIZE] # wt_prev[1]

\* C23: pow_two_value_of_degree<T>(d), T unsigned of width w, returns 2^d
\* when d < w and 2^(w-1) when d >= w; it never returns 0.
C23_Saturates ==
    pow_value # {-1} =>
        /\ pow_degree < pow_width => pow_value = {pow_degree}
        /\ pow_degree >= pow_width => pow_value = {pow_width - 1}
        /\ pow_value # {}

\* C23 (case): a call with a degree of at least the width has returned.
C23_DegreePastWidth == pow_value # {-1} /\ pow_degree >= pow_width

\* C29: at every butterfly stage of a transform of an accepted size up to
\* 2048, with block size current_pot, the twiddle array selected holds
\* exactly current_pot / 2 elements, every lookup index is below that, and
\* the clamp of choose_array has kept the index the transform asked for.
C29_TwiddleInRange ==
    stage_pc = "for" =>
        /\ ELEMENTS(m_act_array_index) = current_pot \div 2
        /\ inner_ndx < ELEMENTS(m_act_array_index)
        /\ m_act_array_index = current_exp_array_index

\* C24: the forward transform of a real sinusoid at bin fft_bin has its
\* largest magnitude over the bins below half the size at fft_bin: no bin
\* there has a larger magnitude.
C24_PeakAtBin ==
    (transformed /\ DOMAIN fft_samples_arr = 0..(2 ^ fft_degree - 1)) =>
        \A j \in 0..(2 ^ (fft_degree - 1) - 1) :
            ~Larger(fft_samples_arr[j], fft_samples_arr[fft_bin])

\* C25: after every peak extraction, one following earlier extractions on
\* the same map included, the first valid_entries entries of the map are
\* exactly the bins of the spectrum just given whose magnitude reaches the
\* threshold, each once and with that magnitude.
C25_OnlyCurrentPeaks ==
    LET peaks == { <<i - 1, spectrum[i]>> :
                      i \in { b \in 1..VIEW_SIZE :
                                 spectrum[b] >= clipped_threshold(threshold) } }
    IN  /\ { bin_mag_arr[i] : i \in 1..valid_entries } = peaks
        /\ Cardinality(peaks) = valid_entries

\* C27: for every num_voices, values above NUM_OSCS included,
\* tune_oscillators_to_fft ignores the excess voices: no call of
\* tune_and_set_amp is made on an oscillator at an index of NUM_OSCS or more.
C27_NoAccessPastBank ==
    \A i \in 1..Len(tune_calls) : tune_calls[i][1] < NUM_OSCS

\* C26: tune_oscillators_to_fft(bin_mag, voices), k = min(voices, NUM_OSCS),
\* calls tune_and_set_amp exactly once on every one of the NUM_OSCS
\* oscillators and on nothing else: oscillator i < k with the frequency
\* (bin of entry i + offset) and the amplitude of entry i, every oscillator
\* i >= k with (0, 0).
C26_EveryOscillatorOnce ==
    last_op = "tune" =>
        LET k == IF tune_voices < NUM_OSCS THEN tune_voices ELSE NUM_OSCS IN
        /\ Len(tune_calls) = NUM_OSCS
        /\ \A i \in 0..(NUM_OSCS - 1) :
              \E n \in 1..Len(tune_calls) :
                  /\ tune_calls[n][1] = i
                  /\ i < k => /\ tune_calls[n][3] = bin_mag_arr[i + 1][2]
                              /\ tune_calls[n][2] - bin_mag_arr[i + 1][1]
                                    \in 0..1
                  /\ i >= k => tune_calls[n][2] = 0 /\ tune_calls[n][3] = 0

\* C28: whichever waveform is selected, the table every oscillator reads
\* has its last entry equal to its first, and equalize_end_and_begin() has
\* been applied to it exactly once.
C28_SourceTableEqualized ==
    \A k \in 1..NUM_OSCS :
        LET table == wavetable(m_osc_array[k].m_wt_ptr) IN
        /\ table[WT_SIZE] = table[1]
        /\ equalize_calls(m_osc_array[k].m_wt_ptr) = 1

\* The retune worker takes its pass over the map.
RetuneReads == pc["tune"] = "tune" /\ pc'["tune"] # "tune"

\* C30: the FFT worker writes the peak map and the retune worker reads it
\* only while holding m_bin_mag_array_mtx: a retune pass reads a map no
\* extraction is in the middle of writing, and the map never goes back to an
\* older snapshot, so a retune signalled by an FFT reads that FFT's map or a
\* newer one.
C30_MapUnderMutex ==
    [][/\ RetuneReads =>
              (mtx["binmag"] = "tune" /\ ~m_bin_mag_arr.partial)
       /\ m_bin_mag_arr' # m_bin_mag_arr =>
              (mtx["binmag"] = "fft" \/ mtx'["binmag"] = "fft")
       /\ m_bin_mag_arr'.snap >= m_bin_mag_arr.snap]_vars

\* C30 (case): the retune worker has been woken and is held at the mutex
\* while the FFT worker is in the middle of writing the map of a published
\* snapshot.
C30_RetuneHeldAtMutex ==
    /\ pc["tune"] = "tune_lock"
    /\ pc["fft"] = "maxmap"
    /\ m_bin_mag_arr.partial
    /\ m_out_array.snap > 0

\* wait_for has returned in the trigger worker and the iteration ends.
TriggerTicks == pc["trig"] = "waiting" /\ pc'["trig"] = "loop"

\* C31: on every tick while the TriggerManager is not stopped the trigger
\* worker signals the tuning cv if and only if continuous tuning is off: a
\* retune worker waiting on the cv is released by the tick exactly then, and
\* while continuous tuning is on no tick releases it.
C31_SignalsIffTriggered ==
    [][(TriggerTicks /\ ~tm_stop_workers /\ "tune" \in waiting) =>
           ("tune" \in waiting' <=> common_ondition)]_vars

\* C31 (case): the interval is about to expire in continuous mode with the
\* retune worker waiting on the tuning cv.
C31_TickInContinuousMode ==
    /\ pc["trig"] = "waiting"
    /\ "tune" \in waiting
    /\ common_ondition
    /\ ~tm_stop_workers

\* C32: once ~TriggerManager has set its stop flag and notified, the trigger
\* worker is on its way out: it is never blocked in wait_for with no
\* notification pending, where only the expiry of the interval can wake it.
C32_WokenAtOnce ==
    pc["host"] = "tm_join" =>
        ~(pc["trig"] \in {"lock", "waiting"} /\ (pc["trig"] = "waiting" => "trig" \in waiting))

\* C33: peak extraction compares the magnitudes against the supplied
\* threshold clamped into [min_gain_threshold, N/2]. Magnitudes and
\* thresholds are whole numbers here and min_gain_threshold (0.01) lies
\* between 0 and 1: a magnitude reaches the clamped threshold iff it is not 0
\* and reaches the threshold clamped into [0, N/2]. The extraction admits
\* exactly the bins that do.
C33_ThresholdClamped ==
    valid_entries =
        Cardinality({bin \in 1..VIEW_SIZE :
                        /\ spectrum[bin] > 0
                        /\ spectrum[bin] >= clamped(threshold, 0, VIEW_SIZE)})

\* C34: after any sequence of tune_and_set_amp, set_glide_steps and advance
\* calls, with frequencies below 0 and above Nyquist among them, the table
\* index at the start of an advance lies in [0, WT_SIZE - 1), so the reads at
\* current_index and current_index + 1 are within the table.
C34_PhaseInRange ==
    /\ m_osc_array[1].m_table_index >= 0
    /\ m_osc_array[1].m_table_index < INTERNAL_SIZE

\* C34 (case): the oscillator runs at the Nyquist increment, half a table a
\* sample, and its next advance takes the index to the end of the table.
C34_AboutToWrap ==
    /\ m_osc_array[1].m_table_index > 0
    /\ m_osc_array[1].m_table_index + m_osc_array[1].m_index_increment
          >= INTERNAL_SIZE

\* The members advance_and_receive_output assigns.
AudioSide(o) == <<o.m_table_index, o.m_index_increment, o.m_amplitude>>

\* The members tune_and_set_amp assigns.
RetuneSide(o) ==
    <<o.m_glide_fraction, o.m_upper_limit, o.m_lower_limit,
      o.m_prev_index_increment, o.m_prev_amplitude>>

\* The step is a tune_and_set_amp call on the oscillator: since_tune is 0
\* after that call and after no other.
TuneStep == m_osc_array'[1].since_tune = 0

\* The step is an advance_and_receive_output call on the oscillator.
AdvanceStep == m_osc_array'[1] \in advance_and_receive_output(m_osc_array[1])

\* C35: the retune path and the audio path write disjoint oscillator state.
\* tune_and_set_amp leaves the table index, the current increment and the
\* current amplitude as they are, and writes among the others only the glide
\* fractions, the limits and the previous targets; an advance leaves
\* everything but the table index, the current increment and the current
\* amplitude as it is.
C35_DisjointWrites ==
    [][/\ TuneStep =>
            /\ AudioSide(m_osc_array'[1]) = AudioSide(m_osc_array[1])
            /\ m_osc_array'[1].glide_steps = m_osc_array[1].glide_steps
            /\ m_osc_array'[1].m_wt_ptr = m_osc_array[1].m_wt_ptr
       /\ AdvanceStep =>
            /\ RetuneSide(m_osc_array'[1]) = RetuneSide(m_osc_array[1])
            /\ m_osc_array'[1].glide_steps = m_osc_array[1].glide_steps
            /\ m_osc_array'[1].m_wt_ptr = m_osc_array[1].m_wt_ptr]_vars

\* C35 (case): a tune has just changed both targets of an oscillator that is
\* on its way round the table, its current increment and amplitude away from
\* the new targets.
C35_TunedWhileMoving ==
    /\ m_osc_array[1].since_tune = 0
    /\ m_osc_array[1].m_table_index > 0
    /\ m_osc_array[1].m_index_increment # m_osc_array[1].m_prev_index_increment
    /\ m_osc_array[1].m_amplitude # m_osc_array[1].m_prev_amplitude

\* ------------------------------------------------- the bit-reversal stage
\* The degrees the stage is run for on its own.
RevDegrees == {1, 2, 3}

\* The arrays of 2^deg samples it is run on: every sample 0 or 1.
RevArrays(deg) == [0..(2 ^ deg - 1) -> {0, 1}]

\* The samples and the swap log after a std::swap made for every pair of
\* different indices.
swap_if_less_Unguarded(st, array_index, comp) ==
    IF array_index # comp
    THEN [arr |-> [st.arr EXCEPT ![array_index] = st.arr[comp],
                                 ![comp] = st.arr[array_index]],
          swaps |-> Append(st.swaps, <<array_index, comp>>)]
    ELSE st

\* if (array_index < comparison) std::swap(samples_arr[array_index],
\* samples_arr[comparison]): the samples and the swap log afterwards.
swap_if_less(st, array_index, comp) ==
    IF array_index < comp
    THEN [arr |-> [st.arr EXCEPT ![array_index] = st.arr[comp],
                                 ![comp] = st.arr[array_index]],
          swaps |-> Append(st.swaps, <<array_index, comp>>)]
    ELSE st

\* spct_fourier_transform<T, deg> about to run its first loop, for each
\* degree and each array.
RevInit ==
    /\ EngineInit
    /\ m_osc_array = [k \in 1..NUM_OSCS |-> WTOscillator]
    /\ members = Members
    /\ TableIdle
    /\ PowIdle
    /\ StageIdle
    /\ FftIdle
    /\ rev_deg \in RevDegrees
    /\ rev_in \in RevArrays(rev_deg)
    /\ rev_arr = rev_in
    /\ rev_index = 0
    /\ rev_swaps = << >>

\* One iteration of the first loop: comparison is computed from array_index
\* and the two samples are swapped if array_index < comparison.
RevStep ==
    /\ rev_index < 2 ^ rev_deg
    /\ LET st == swap_if_less([arr |-> rev_arr, swaps |-> rev_swaps], rev_index,
                              comparison(rev_index, 0, rev_deg))
       IN  /\ rev_arr' = st.arr
           /\ rev_swaps' = st.swaps
    /\ rev_index' = rev_index + 1
    /\ UNCHANGED <<system_vars, table_vars, pow_vars, stage_vars, fft_vars,
                   tune_vars, rev_deg, rev_in>>

RevNext == RevStep

RevSpec == RevInit /\ [][RevNext]_vars

\* Bit k of n.
Bit(n, k) == (n \div 2 ^ k) % 2

\* The deg-bit reversal of j: the index whose bit k is bit deg - 1 - k of j.
BitReversed(j, deg) ==
    CHOOSE r \in 0..(2 ^ deg - 1) :
        \A k \in 0..(deg - 1) : Bit(r, k) = Bit(j, deg - 1 - k)

\* C36: the bit-reversal stage realises the log2(N)-bit reversal
\* permutation: when its loop is over, position rev(j) holds the sample that
\* was at position j, for every j; each pair (j, rev(j)) with j < rev(j) has
\* been swapped exactly once and nothing else has been swapped.
C36_BitReversalPermutation ==
    rev_index = 2 ^ rev_deg =>
        LET N == 2 ^ rev_deg
            Times_swapped(j, r) ==
                Cardinality({i \in 1..Len(rev_swaps) : rev_swaps[i] = <<j, r>>})
        IN  /\ \A j \in 0..(N - 1) :
                  rev_arr[BitReversed(j, rev_deg)] = rev_in[j]
            /\ \A j \in 0..(N - 1) : \A r \in 0..(N - 1) :
                  Times_swapped(j, r) =
                      IF r = BitReversed(j, rev_deg) /\ j < r THEN 1 ELSE 0

\* C36 (case): the stage is over for 8 samples, and the samples at 1 and 4
\* and at 3 and 6, which differed, have changed places.
C36_PairsSwapped ==
    /\ rev_deg = 3
    /\ rev_index = 8
    /\ rev_in[1] # rev_in[4]
    /\ rev_in[3] # rev_in[6]
    /\ rev_arr # rev_in
    /\ Len(rev_swaps) = 2

\* C37: in every execution, across reset() too, the limits the next advance
\* passes to std::clamp are ordered, lower <= upper, for the increment and
\* for the amplitude.
C37_LimitsOrdered ==
    /\ m_osc_array[1].m_lower_limit[1] <= m_osc_array[1].m_upper_limit[1]
    /\ m_osc_array[1].m_lower_limit[2] <= m_osc_array[1].m_upper_limit[2]

\* The thread is at a lock it cannot take: the mutex is held by another.
BlockedAt(t, m) ==
    /\ mtx[m] \notin {"none", t}
    /\ \/ m = "binmag" /\ pc[t] \in {"maxmap_lock", "tune_lock"}
       \/ m = "calc" /\ t = "fft" /\ pc[t] \in {"lock", "waiting"}
       \/ m = "tune" /\ t = "tune" /\ pc[t] \in {"lock", "waiting"}

\* C38: the system never deadlocks on its mutexes. A signalling mutex is
\* only ever held by its own worker and m_bin_mag_array_mtx is always the
\* last mutex a thread takes, so the order admits no cycle; whoever holds
\* m_bin_mag_array_mtx is inside its pass over the map and blocked nowhere;
\* and a thread in a condition variable's wait holds no mutex at all.
C38_NoLockCycle ==
    /\ mtx["calc"] \in {"none", "fft"}
    /\ mtx["tune"] \in {"none", "tune"}
    /\ mtx["binmag"] \in {"none", "fft", "tune"}
    /\ mtx["binmag"] = "fft" => pc["fft"] = "maxmap" /\ mtx["calc"] = "fft"
    /\ mtx["binmag"] = "tune" => pc["tune"] = "tune" /\ mtx["tune"] = "tune"
    /\ \A t \in Threads : \A m \in Mutexes :
          /\ pc[t] = "waiting" => mtx[m] # t
          /\ BlockedAt(t, m) =>
                \A other \in Mutexes : ~BlockedAt(mtx[m], other)

\* C38 (case): the FFT worker, holding the calculation mutex, is blocked at
\* the map's mutex, which the retune worker holds together with the tuning
\* mutex.
C38_WorkersContend ==
    /\ BlockedAt("fft", "binmag")
    /\ mtx["calc"] = "fft"
    /\ mtx["binmag"] = "tune"
    /\ mtx["tune"] = "tune"

\* ------------------------------------------------- host calls, workers alive
\* InstanceController::prepare_to_play(sampling_freq) called by the host
\* between two audio callbacks.
HostPrepareToPlay ==
    /\ pc["host"] = "alive"
    /\ pc["audio"] = "idle"
    /\ prepare_to_play

\* InstanceController::reset() called by the host between two audio
\* callbacks.
HostReset ==
    /\ pc["host"] = "alive"
    /\ pc["audio"] = "idle"
    /\ reset

\* The audio thread and the two workers of the CalculationEngine, with the
\* host resetting and preparing the instance between the audio callbacks.
ResetNext ==
    \/ AudioThread
    \/ FftWorker
    \/ TuneWorker
    \/ HostPrepareToPlay
    \/ HostReset

ResetSpec == Init /\ [][ResetNext]_vars

\* wait has returned in the FFT worker and spct_fourier_transform has not:
\* the worker is transforming m_out_array.
Transforming == pc["fft"] = "woken" /\ ~m_stop_workers

\* The retune worker is inside tune_oscillators_to_fft.
Retuning == pc["tune"] = "tune"

\* C39: reset() and prepare_to_play(), called while no audio callback runs
\* and the workers are alive, never write m_out_array while the FFT worker
\* is transforming it, and reset() never writes the oscillators' previous
\* targets and limits while the retune worker is inside
\* tune_oscillators_to_fft.
C39_HostWritesAlone ==
    [][/\ (HostPrepareToPlay \/ HostReset) => ~Transforming
       /\ HostReset => ~Retuning]_vars

\* ------------------------------------------------- construction
\* The steps of InstanceController's construction that start a worker or
\* initialise a member a worker reads, in the order the members are
\* declared: in CalculationEngine m_fft_worker, m_tuning_worker,
\* m_stop_workers, m_continuous_tuning and the constructor's body; then in
\* TriggerManager m_trigger_worker, m_stop_workers, m_tuning_interval.
CtorOrder ==
    <<"ce_fft_worker", "ce_tuning_worker", "ce_stop_workers",
      "ce_continuous_tuning", "ce_prepare_to_play", "tm_trigger_worker",
      "tm_stop_workers", "tm_tuning_interval", "alive">>

Position(step_name) == CHOOSE i \in 1..Len(CtorOrder) : CtorOrder[i] = step_name

\* The construction has carried out the step.
CtorPast(step_name) == Position(pc["host"]) > Position(step_name)

\* What the storage of m_tuning_interval can hold before its initialiser
\* has run: the value the initialiser gives it, or another.
IndeterminateIntervals == {-1, 500}

\* The constructor of InstanceController reaching m_calculation_engine: no
\* worker has been started, the SyncPrimitives are value-initialised, and
\* the members initialised later hold what their storage held before.
CtorInit ==
    /\ pc = [t \in Threads |->
                IF t = "audio" THEN "idle"
                ELSE IF t = "host" THEN "ce_fft_worker" ELSE "unstarted"]
    /\ action_done = FALSE
    /\ tune_action_done = FALSE
    /\ m_continuous_tuning \in BOOLEAN
    /\ m_stop_workers \in BOOLEAN
    /\ tm_stop_workers \in BOOLEAN
    /\ BuffersInit
    /\ UnitsIdle
    /\ m_osc_array = [k \in 1..NUM_OSCS |-> WTOscillator]
    /\ \E interval \in IndeterminateIntervals :
          members = [Members EXCEPT !.m_tuning_interval = interval]

\* m_fft_worker(std::thread(...)), m_tuning_worker(std::thread(...)) and
\* m_trigger_worker(...): the thread exists and may run from here on.
CtorStartWorker ==
    \E t \in {"fft", "tune", "trig"} :
        /\ pc["host"] = (IF t = "fft" THEN "ce_fft_worker"
                         ELSE IF t = "tune" THEN "ce_tuning_worker"
                         ELSE "tm_trigger_worker")
        /\ pc' = [pc EXCEPT ![t] = "loop",
                            !["host"] = CtorOrder[Position(pc["host"]) + 1]]
        /\ UNCHANGED <<detail_vars, audio_vars, ring_vars, data_vars, flag_vars,
                       sync_vars>>

\* std::atomic_bool m_stop_workers{false} of CalculationEngine
CtorStopWorkers ==
    /\ pc["host"] = "ce_stop_workers"
    /\ m_stop_workers' = FALSE
    /\ Goto("host", "ce_continuous_tuning")
    /\ UNCHANGED <<detail_vars, audio_vars, ring_vars, data_vars, action_done,
                   tune_action_done, common_ondition, m_continuous_tuning,
                   m_freeze, tm_stop_workers, sync_vars>>

\* std::atomic_bool m_continuous_tuning{true}
CtorContinuousTuning ==
    /\ pc["host"] = "ce_continuous_tuning"
    /\ m_continuous_tuning' = TRUE
    /\ Goto("host", "ce_prepare_to_play")
    /\ UNCHANGED <<detail_vars, audio_vars, ring_vars, data_vars, action_done,
                   tune_action_done, common_ondition, m_freeze, m_stop_workers,
                   tm_stop_workers, sync_vars>>

\* The constructor's body, CalculationEngine::prepare_to_play(): both
\* action_done flags are set and the map, which no worker holds, is filled
\* with zeros.
CtorPrepareToPlay ==
    /\ pc["host"] = "ce_prepare_to_play"
    /\ mtx["binmag"] = "none"
    /\ action_done' = TRUE
    /\ tune_action_done' = TRUE
    /\ Goto("host", "tm_trigger_worker")
    /\ UNCHANGED <<detail_vars, audio_vars, ring_vars, data_vars,
                   common_ondition, m_continuous_tuning, m_freeze,
                   m_stop_workers, tm_stop_workers, sync_vars>>

\* std::atomic_bool m_stop_workers{false} of TriggerManager
CtorTmStopWorkers ==
    /\ pc["host"] = "tm_stop_workers"
    /\ tm_stop_workers' = FALSE
    /\ Goto("host", "tm_tuning_interval")
    /\ UNCHANGED <<detail_vars, audio_vars, ring_vars, data_vars, action_done,
                   tune_action_done, common_ondition, m_continuous_tuning,
                   m_freeze, m_stop_workers, sync_vars>>

\* std::chrono::milliseconds m_tuning_interval{500}: the construction is
\* complete.
CtorTuningInterval ==
    /\ pc["host"] = "tm_tuning_interval"
    /\ members' = [members EXCEPT !.m_tuning_interval = 500]
    /\ Goto("host", "alive")
    /\ UNCHANGED <<unit_vars, map_vars, m_osc_array, zero_run, last_op,
                   last_params, windows, advances, audio_vars, ring_vars,
                   data_vars, flag_vars, sync_vars>>

\* The construction and the workers up to their first wait.
CtorNext ==
    \/ CtorStartWorker
    \/ CtorStopWorkers
    \/ CtorContinuousTuning
    \/ CtorPrepareToPlay
    \/ CtorTmStopWorkers
    \/ CtorTuningInterval
    \/ FftLoop
    \/ FftWait
    \/ TuneLoop
    \/ TuneWait
    \/ TrigLoop
    \/ TrigWait
    \/ TrigTick

CtorSpec == CtorInit /\ [][CtorNext]_vars

\* The worker evaluates while (!m_stop_workers).
LoopTest(t) == pc[t] = "loop" /\ pc'[t] # "loop"

\* The trigger worker calls wait_for(lock, m_tuning_interval).
IntervalRead == pc["trig"] = "lock" /\ pc'["trig"] = "waiting"

\* C40: no worker started by a constructor reads its stop flag or its
\* configuration before the constructor has initialised the member, and
\* every worker sees its stop flag as false: none leaves its loop during the
\* construction.
C40_WorkersSeeInitialised ==
    [][/\ \A t \in {"fft", "tune", "trig"} : pc'[t] # "done"
       /\ LoopTest("fft") => CtorPast("ce_stop_workers")
       /\ LoopTest("tune") => CtorPast("ce_stop_workers")
       /\ LoopTest("trig") => CtorPast("tm_stop_workers")
       /\ IntervalRead => CtorPast("tm_tuning_interval")
       /\ TriggerTicks => CtorPast("tm_stop_workers")]_vars
====
